---------------------------- MODULE Spec2Model ----------------------------
(***************************************************************************)
(* State-machine model of the FLAMES backend:                              *)
(*   - src/api/main.py           the incident state machine                *)
(*                               (upsert_fire_incident), the simulation    *)
(*                               endpoints and the manual resolution       *)
(*                               (resolve_incident), register_gateway and  *)
(*                               signup                                    *)
(*   - src/worker/ai_inference.py the classification worker (on_message)   *)
(*   - src/rpi-to-mqtt/rpi-mqtt.py the radio receiver loop and send_ack    *)
(*                                                                         *)
(* Encodings.  Timestamps are integers >= 1 read from a second-resolution  *)
(* clock; SQL NULL / Python None in a numeric column is NULL.  Confidence  *)
(* is in percent (0.95 -> 95), temperatures in tenths (52.3 -> 523),       *)
(* coordinates in ten-thousandths.  A row id is the row's position in its  *)
(* table (AUTO_INCREMENT, no deletes in the modelled operations).          *)
(***************************************************************************)
EXTENDS Integers, Sequences, FiniteSets, TLC

VARIABLES
    fire_incidents,   \* table fire_incidents (committed rows), a sequence
    sensor_readings,  \* table sensor_readings (committed rows), a sequence
    gateways,         \* table gateways (committed rows), a sequence
    broadcasts,       \* messages handed to manager.broadcast, in order
    clock,            \* wall clock, one unit = one second
    api_pc,           \* per API connection: position of its request handler
    api_req,          \* per API connection: the handler's local variables
    api_resp,         \* per API connection: HTTP status of its last response
    nreq,             \* number of requests / readings accepted so far
    wk_pc,            \* per worker instance: position in on_message
    wk_loc,           \* per worker instance: on_message's local variables
    posts,            \* worker's requests.post calls to /notify-new-data, in order
    nmsg,             \* number of broker messages delivered to the workers
    wk_conn,          \* per worker instance: database connections it holds open
    rx_pc,            \* gateway: position of the receive loop
    rx_loc,           \* gateway: the loop's local variables
    op_mode,          \* the mode last written to the SX1278's REG_OP_MODE
    irq_flags,        \* SX1278 REG_IRQ_FLAGS, the set of flags that are set
    fifo,             \* SX1278 FIFO: the packet at REG_FIFO_RX_CURRENT_ADDR
    rssi_reg,         \* SX1278 REG_PKT_RSSI_VALUE
    snr_reg,          \* SX1278 REG_PKT_SNR_VALUE
    radio_tx,         \* frames the gateway has put on the air, in order
    published,        \* mqttc.publish calls, in order
    nframes,          \* number of frames that have reached the receiver
    users,            \* table users (committed rows), a sequence
    invite_codes      \* table invite_codes (committed rows), keyed by code

apiVars == <<api_pc, api_req, api_resp, nreq>>
wkVars  == <<wk_pc, wk_loc, posts, nmsg, wk_conn>>
rxVars  == <<rx_pc, rx_loc, op_mode, irq_flags, fifo, rssi_reg, snr_reg,
             radio_tx, published, nframes>>
dbVars  == <<fire_incidents, sensor_readings, gateways, broadcasts>>
authVars == <<users, invite_codes>>

vars == <<fire_incidents, sensor_readings, gateways, broadcasts, clock,
          api_pc, api_req, api_resp, nreq, wk_pc, wk_loc, posts, nmsg, wk_conn,
          rx_pc, rx_loc, op_mode, irq_flags, fifo, rssi_reg, snr_reg,
          radio_tx, published, nframes, users, invite_codes>>

-----------------------------------------------------------------------------
(* Bounds of the model *)

MaxReq == 3        \* requests accepted in a run of the serial API
MaxConcReq == 3    \* requests accepted in a run of the concurrent API
MaxMsgs == 2       \* broker messages delivered in a run of the worker
MaxFrames == 2     \* frames that reach the gateway's receiver in a run

-----------------------------------------------------------------------------
(* Values *)

NULL == -1
NoneStr == "None"

Nodes == {"N1", "N2"}
GatewayIds == {"GW1", "GW2"}
Conns == {1, 2}

\* users rows as returned by get_current_user: is_admin and org_id
Admin  == [name |-> "admin",  is_admin |-> 1, org_id |-> 1]
Member == [name |-> "member", is_admin |-> 0, org_id |-> 1]

\* the simulation requests the model issues: caller, node_id, gateway_id
SimRequests == {<<Admin,  "N1", "GW1">>, <<Admin,  "N2", "GW2">>,
                <<Member, "N1", "GW1">>, <<Member, "N2", "GW2">>}

NotesIn == {NoneStr, "checked"}

\* the users table at the start: one account, with an e-mail address
InitUsers == <<[username |-> "member", email |-> "m@x", org_id |-> 1]>>

\* the invite_codes rows (not expired): INV2 can be used twice, INV0 has
\* max_uses = 0 (no limit)
InitInviteCodes ==
    [code \in {"INV2", "INV0"} |->
        IF code = "INV2" THEN [org_id |-> 1, max_uses |-> 2, uses |-> 0]
        ELSE [org_id |-> 2, max_uses |-> 0, uses |-> 0]]

\* organizations.invite_code of the organizations (not expired)
OrgInviteCodes == [code \in {"ORG1"} |-> 1]

\* the POST /signup bodies the model issues (UserCreate)
SignupBodies ==
    {[username |-> "member", email |-> NoneStr, invite_code |-> "INV2"],
     [username |-> "new1",   email |-> "m@x",   invite_code |-> "INV2"],
     [username |-> "new1",   email |-> NoneStr, invite_code |-> "INV2"],
     [username |-> "new2",   email |-> NoneStr, invite_code |-> "INV2"],
     [username |-> "new1",   email |-> NoneStr, invite_code |-> "ORG1"],
     [username |-> "new2",   email |-> NoneStr, invite_code |-> "INV0"],
     [username |-> "new1",   email |-> NoneStr, invite_code |-> "BAD"]}

NoReq == [op |-> "none"]

Workers == {1, 2}
NoMsg == [node |-> NoneStr]
NoFrame == [node |-> NoneStr]

Range(s) == {s[i] : i \in DOMAIN s}

\* dict.get(key, default)
Get(d, k, default) == IF k \in DOMAIN d THEN d[k] ELSE default

\* str.lower() on the labels the model uses
Lower(s) ==
    CASE s = "Fire"   -> "fire"
      [] s = "FIRE"   -> "fire"
      [] s = "False"  -> "false"
      [] s = "Normal" -> "normal"
      [] OTHER        -> s

-----------------------------------------------------------------------------
(* upsert_fire_incident, src/api/main.py 175-242 *)

\* mutant: the label is compared as it comes, without lower()
PredOfExact(reading) ==
    LET p == Get(reading, "ai_prediction", NoneStr)
    IN  IF p = NoneStr THEN "" ELSE p

\* pred = (reading.get("ai_prediction") or "").lower()
PredOf(reading) ==
    LET p == Get(reading, "ai_prediction", NoneStr)
    IN  IF p = NoneStr THEN "" ELSE Lower(p)

\* now_str = reading.get("local_timestamp") or datetime.now(PH_ZONE)
NowStr(reading, now) ==
    LET t == Get(reading, "local_timestamp", NULL)
    IN  IF t = NULL THEN now ELSE t

\* mutant: every label counts as fire evidence
IsFireEvidenceAnyLabel(pred) == pred = pred

\* mutant: only the label fire counts as fire evidence
IsFireEvidenceFireOnly(pred) == pred = "fire"

\* if pred not in ("fire", "false")
IsFireEvidence(pred) == pred \in {"fire", "false"}

\* mutant: the resolving UPDATE has no node_id in its WHERE clause
ResolveActiveAnyNode(incs, node_id, now_str) ==
    [i \in DOMAIN incs |->
        IF incs[i].status = "active"
        THEN [incs[i] EXCEPT !.status = "resolved", !.resolved_at = now_str]
        ELSE incs[i]]

\* mutant: the resolving UPDATE also stamps last_updated_at
ResolveActiveTouches(incs, node_id, now_str) ==
    [i \in DOMAIN incs |->
        IF incs[i].node_id = node_id /\ incs[i].status = "active"
        THEN [incs[i] EXCEPT !.status = "resolved", !.resolved_at = now_str,
                             !.last_updated_at = now_str]
        ELSE incs[i]]

\* UPDATE fire_incidents SET status='resolved', resolved_at=%s
\*   WHERE node_id=%s AND status='active'
ResolveActive(incs, node_id, now_str) ==
    [i \in DOMAIN incs |->
        IF incs[i].node_id = node_id /\ incs[i].status = "active"
        THEN [incs[i] EXCEPT !.status = "resolved", !.resolved_at = now_str]
        ELSE incs[i]]

\* SELECT id FROM fire_incidents WHERE node_id=%s AND status='active'
ActiveIds(incs, node_id) ==
    {i \in DOMAIN incs : incs[i].node_id = node_id /\ incs[i].status = "active"}

\* mutant: the SELECT finds no row (e.g. filters on a status no row has)
SelectExistingNone(incs, node_id) == {NULL}

\* mutant: the SELECT lacks "AND status = 'active'"
SelectExistingAnyStatus(incs, node_id) ==
    IF {i \in DOMAIN incs : incs[i].node_id = node_id} = {} THEN {NULL}
    ELSE {i \in DOMAIN incs : incs[i].node_id = node_id}

\* ... LIMIT 1; cur.fetchone(): one of the matching ids, or NULL (no row)
SelectExisting(incs, node_id) ==
    IF ActiveIds(incs, node_id) = {} THEN {NULL} ELSE ActiveIds(incs, node_id)

\* mutant: the UPDATE also restarts the incident (started_at)
UpdateIncidentRestarts(incs, id, reading, now_str) ==
    [i \in DOMAIN incs |->
        IF i = id
        THEN [incs[i] EXCEPT
                !.ai_prediction   = PredOf(reading),
                !.confidence      = Get(reading, "confidence", 0),
                !.temperature     = Get(reading, "temperature", NULL),
                !.humidity        = Get(reading, "humidity", NULL),
                !.flame           = Get(reading, "flame", NULL),
                !.smoke           = Get(reading, "smoke", NULL),
                !.latitude        = Get(reading, "latitude", NULL),
                !.longitude       = Get(reading, "longitude", NULL),
                !.started_at      = now_str,
                !.last_updated_at = now_str]
        ELSE incs[i]]

\* mutant: the UPDATE does not set last_updated_at
UpdateIncidentKeepsTime(incs, id, reading, now_str) ==
    [i \in DOMAIN incs |->
        IF i = id
        THEN [incs[i] EXCEPT
                !.ai_prediction   = PredOf(reading),
                !.confidence      = Get(reading, "confidence", 0),
                !.temperature     = Get(reading, "temperature", NULL),
                !.humidity        = Get(reading, "humidity", NULL),
                !.flame           = Get(reading, "flame", NULL),
                !.smoke           = Get(reading, "smoke", NULL),
                !.latitude        = Get(reading, "latitude", NULL),
                !.longitude       = Get(reading, "longitude", NULL)]
        ELSE incs[i]]

\* UPDATE fire_incidents SET ai_prediction=.., ..., last_updated_at=.. WHERE id=..
UpdateIncident(incs, id, reading, now_str) ==
    [i \in DOMAIN incs |->
        IF i = id
        THEN [incs[i] EXCEPT
                !.ai_prediction   = PredOf(reading),
                !.confidence      = Get(reading, "confidence", 0),
                !.temperature     = Get(reading, "temperature", NULL),
                !.humidity        = Get(reading, "humidity", NULL),
                !.flame           = Get(reading, "flame", NULL),
                !.smoke           = Get(reading, "smoke", NULL),
                !.latitude        = Get(reading, "latitude", NULL),
                !.longitude       = Get(reading, "longitude", NULL),
                !.last_updated_at = now_str]
        ELSE incs[i]]

\* INSERT INTO fire_incidents (...) VALUES (..., 'active', now, now)
InsertIncident(incs, reading, now_str) ==
    Append(incs,
        [id              |-> Len(incs) + 1,
         node_id         |-> Get(reading, "node_id", NoneStr),
         gateway_id      |-> Get(reading, "gateway_id", NoneStr),
         ai_prediction   |-> PredOf(reading),
         confidence      |-> Get(reading, "confidence", 0),
         temperature     |-> Get(reading, "temperature", NULL),
         humidity        |-> Get(reading, "humidity", NULL),
         flame           |-> Get(reading, "flame", NULL),
         smoke           |-> Get(reading, "smoke", NULL),
         latitude        |-> Get(reading, "latitude", NULL),
         longitude       |-> Get(reading, "longitude", NULL),
         status          |-> "active",
         started_at      |-> now_str,
         last_updated_at |-> now_str,
         resolved_at     |-> NULL,
         notes           |-> NoneStr])

\* the statements after the SELECT: UPDATE the row found, or INSERT a new one
UpsertWrite(incs, reading, existing, now_str) ==
    IF existing # NULL
    THEN UpdateIncident(incs, existing, reading, now_str)
    ELSE InsertIncident(incs, reading, now_str)

\* the whole function run on one connection with nothing in between:
\* the set of tables it can leave
UpsertFireIncident(incs, reading, now) ==
    LET pred    == PredOf(reading)
        node_id == Get(reading, "node_id", NoneStr)
        now_str == NowStr(reading, now)
    IN  IF ~IsFireEvidence(pred)
        THEN {ResolveActive(incs, node_id, now_str)}
        ELSE {UpsertWrite(incs, reading, e, now_str) :
                e \in SelectExisting(incs, node_id)}


-----------------------------------------------------------------------------
(* The API endpoints that write fire_incidents, src/api/main.py            *)
(* Each handler runs on its own connection (mysql.connector.connect) with  *)
(* autocommit off; its writes become visible to other connections at       *)
(* conn.commit().  A handler is two steps: Begin runs up to and including  *)
(* its last SELECT, Finish runs its writes, the commit and the broadcast.  *)

\* cur.execute("SELECT org_id FROM gateways WHERE gateway_id = %s"); fetchone()
GatewayOrgs(gws, gateway_id) ==
    {gws[i].org_id : i \in {j \in DOMAIN gws : gws[j].gateway_id = gateway_id}}

\* the non-admin gateway check of simulate_fire / simulate_false / simulate_normal:
\* the set of HTTP statuses it can end in (200 = passed)
SimAuth(gws, user, gateway_id) ==
    IF user.is_admin = 1 THEN {200}
    ELSE IF GatewayOrgs(gws, gateway_id) = {} THEN {404}
    ELSE {IF o = user.org_id THEN 200 ELSE 403 : o \in GatewayOrgs(gws, gateway_id)}

SimKinds == {"fire", "false", "normal"}

\* the dict each simulation endpoint passes to upsert_fire_incident
SimReading(kind, node_id, gateway_id, now) ==
    CASE kind = "fire" ->
           [node_id |-> node_id, gateway_id |-> gateway_id,
            ai_prediction |-> "fire", confidence |-> 95,
            temperature |-> 523, humidity |-> 25, flame |-> 1, smoke |-> 920,
            latitude |-> 160435, longitude |-> 1203351, local_timestamp |-> now]
      [] kind = "false" ->
           [node_id |-> node_id, gateway_id |-> gateway_id,
            ai_prediction |-> "false", confidence |-> 55,
            temperature |-> 385, humidity |-> 40, flame |-> 1, smoke |-> 450,
            latitude |-> 160435, longitude |-> 1203351, local_timestamp |-> now]
      [] OTHER ->
           [node_id |-> node_id, gateway_id |-> gateway_id,
            ai_prediction |-> "normal", local_timestamp |-> now]

\* the row each simulation endpoint inserts into sensor_readings
SimSensorRow(kind, node_id, gateway_id, now) ==
    [gateway_id |-> gateway_id, node_id |-> node_id, timestamp |-> now,
     ai_prediction |-> kind,
     confidence |-> (CASE kind = "fire" -> 95 [] kind = "false" -> 55 [] OTHER -> 99)]

\* the message each simulation endpoint hands to manager.broadcast
SimBroadcast(kind, node_id, gateway_id, now) ==
    [type |-> (IF kind = "normal" THEN "new_reading" ELSE "incident_update"),
     node_id |-> node_id, gateway_id |-> gateway_id, ai_prediction |-> kind,
     timestamp |-> now]

\* the message resolve_incident hands to manager.broadcast
ResolveBroadcast(incident_id) ==
    [type |-> "incident_update", incident_id |-> incident_id, action |-> "resolved"]

Respond(c, code) == api_resp' = [api_resp EXCEPT ![c] = code]

\* simulate_fire / simulate_false / simulate_normal up to the SELECT of
\* upsert_fire_incident (the gateway check, now, the pending INSERT of the reading)
SimBegin(c, kind, user, node_id, gateway_id) ==
    /\ api_pc[c] = "idle"
    /\ \E code \in SimAuth(gateways, user, gateway_id) :
         IF code # 200
         THEN /\ Respond(c, code)
              /\ UNCHANGED <<authVars, fire_incidents, sensor_readings, gateways, broadcasts,
                             clock, api_pc, api_req, nreq, wkVars, rxVars>>
         ELSE \E now \in {clock, clock + 1} :
              \E existing \in (IF IsFireEvidence(kind)
                               THEN SelectExisting(fire_incidents, node_id)
                               ELSE {NULL}) :
                /\ clock' = now
                /\ api_pc' = [api_pc EXCEPT ![c] = "sim_write"]
                /\ api_req' = [api_req EXCEPT ![c] =
                      [op |-> "simulate", kind |-> kind, node_id |-> node_id,
                       gateway_id |-> gateway_id, now |-> now, existing |-> existing]]
                /\ nreq' = nreq + 1
                /\ UNCHANGED <<authVars, fire_incidents, sensor_readings, gateways,
                               broadcasts, api_resp, wkVars, rxVars>>

\* the rest of the simulation endpoint: the UPDATE or INSERT of
\* upsert_fire_incident, conn.commit(), manager.broadcast, the response
SimFinish(c) ==
    /\ api_pc[c] = "sim_write"
    /\ LET r       == api_req[c]
           reading == SimReading(r.kind, r.node_id, r.gateway_id, r.now)
           now_str == NowStr(reading, r.now)
       IN  /\ fire_incidents' =
                 IF ~IsFireEvidence(PredOf(reading))
                 THEN ResolveActive(fire_incidents, r.node_id, now_str)
                 ELSE UpsertWrite(fire_incidents, reading, r.existing, now_str)
           /\ sensor_readings' = Append(sensor_readings,
                 SimSensorRow(r.kind, r.node_id, r.gateway_id, r.now))
           /\ broadcasts' = Append(broadcasts,
                 SimBroadcast(r.kind, r.node_id, r.gateway_id, r.now))
    /\ api_pc' = [api_pc EXCEPT ![c] = "idle"]
    /\ api_req' = [api_req EXCEPT ![c] = NoReq]
    /\ Respond(c, 200)
    /\ UNCHANGED <<authVars, gateways, clock, nreq, wkVars, rxVars>>

\* mutant: resolve_incident without the "already resolved" check
ResolveBeginNoStatusCheck(c, incident_id, notes) ==
    /\ api_pc[c] = "idle"
    /\ IF incident_id \notin DOMAIN fire_incidents
       THEN /\ Respond(c, 404)
            /\ UNCHANGED <<authVars, fire_incidents, sensor_readings, gateways, broadcasts,
                           clock, api_pc, api_req, nreq, wkVars, rxVars>>
       ELSE \E now \in {clock, clock + 1} :
            /\ clock' = now
            /\ api_pc' = [api_pc EXCEPT ![c] = "resolve_write"]
            /\ api_req' = [api_req EXCEPT ![c] =
                  [op |-> "resolve", incident_id |-> incident_id,
                   notes |-> notes, now |-> now]]
            /\ nreq' = nreq + 1
            /\ UNCHANGED <<authVars, fire_incidents, sensor_readings, gateways,
                           broadcasts, api_resp, wkVars, rxVars>>

\* resolve_incident up to its status check:
\* SELECT id, status FROM fire_incidents WHERE id = %s; 404 / 400 / go on
ResolveBegin(c, incident_id, notes) ==
    /\ api_pc[c] = "idle"
    /\ IF incident_id \notin DOMAIN fire_incidents
       THEN /\ Respond(c, 404)
            /\ UNCHANGED <<authVars, fire_incidents, sensor_readings, gateways, broadcasts,
                           clock, api_pc, api_req, nreq, wkVars, rxVars>>
       ELSE IF fire_incidents[incident_id].status = "resolved"
       THEN /\ Respond(c, 400)
            /\ UNCHANGED <<authVars, fire_incidents, sensor_readings, gateways, broadcasts,
                           clock, api_pc, api_req, nreq, wkVars, rxVars>>
       ELSE \E now \in {clock, clock + 1} :
            /\ clock' = now
            /\ api_pc' = [api_pc EXCEPT ![c] = "resolve_write"]
            /\ api_req' = [api_req EXCEPT ![c] =
                  [op |-> "resolve", incident_id |-> incident_id,
                   notes |-> notes, now |-> now]]
            /\ nreq' = nreq + 1
            /\ UNCHANGED <<authVars, fire_incidents, sensor_readings, gateways,
                           broadcasts, api_resp, wkVars, rxVars>>

\* mutant: the manual UPDATE sets the status and the notes only
ManualResolveStatusOnly(incs, incident_id, now_str, notes) ==
    [i \in DOMAIN incs |->
        IF i = incident_id
        THEN [incs[i] EXCEPT !.status = "resolved", !.notes = notes]
        ELSE incs[i]]

\* UPDATE fire_incidents SET status='resolved', resolved_at=%s, notes=%s WHERE id=%s
ManualResolve(incs, incident_id, now_str, notes) ==
    [i \in DOMAIN incs |->
        IF i = incident_id
        THEN [incs[i] EXCEPT !.status = "resolved", !.resolved_at = now_str,
                             !.notes = notes]
        ELSE incs[i]]

\* the rest of resolve_incident: the UPDATE, conn.commit(), manager.broadcast
ResolveFinish(c) ==
    /\ api_pc[c] = "resolve_write"
    /\ LET r == api_req[c]
       IN  /\ fire_incidents' =
                 ManualResolve(fire_incidents, r.incident_id, r.now, r.notes)
           /\ broadcasts' = Append(broadcasts, ResolveBroadcast(r.incident_id))
    /\ api_pc' = [api_pc EXCEPT ![c] = "idle"]
    /\ api_req' = [api_req EXCEPT ![c] = NoReq]
    /\ Respond(c, 200)
    /\ UNCHANGED <<authVars, sensor_readings, gateways, clock, nreq, wkVars, rxVars>>

-----------------------------------------------------------------------------
(* register_gateway, src/api/main.py 944-967 *)

\* the row register_gateway inserts: the caller's org_id; status is not
\* named in the INSERT (the column's default)
RegisteredGateway(gateway_id, user) ==
    [gateway_id |-> gateway_id, org_id |-> user.org_id, status |-> "default"]

\* register_gateway up to its check: admin_required (403),
\* SELECT id FROM gateways WHERE gateway_id = %s; 400 if a row came back
RegisterBegin(c, user, gateway_id) ==
    /\ api_pc[c] = "idle"
    /\ IF user.is_admin # 1
       THEN /\ Respond(c, 403)
            /\ UNCHANGED <<authVars, fire_incidents, sensor_readings, gateways,
                           broadcasts, clock, api_pc, api_req, nreq, wkVars, rxVars>>
       ELSE IF \E i \in DOMAIN gateways : gateways[i].gateway_id = gateway_id
       THEN /\ Respond(c, 400)
            /\ UNCHANGED <<authVars, fire_incidents, sensor_readings, gateways,
                           broadcasts, clock, api_pc, api_req, nreq, wkVars, rxVars>>
       ELSE /\ api_pc' = [api_pc EXCEPT ![c] = "register_write"]
            /\ api_req' = [api_req EXCEPT ![c] =
                  [op |-> "register", gateway_id |-> gateway_id, user |-> user]]
            /\ nreq' = nreq + 1
            /\ UNCHANGED <<authVars, fire_incidents, sensor_readings, gateways,
                           broadcasts, clock, api_resp, wkVars, rxVars>>

\* the rest of register_gateway: INSERT INTO gateways, conn.commit(), 200
RegisterFinish(c) ==
    /\ api_pc[c] = "register_write"
    /\ gateways' = Append(gateways,
          RegisteredGateway(api_req[c].gateway_id, api_req[c].user))
    /\ api_pc' = [api_pc EXCEPT ![c] = "idle"]
    /\ api_req' = [api_req EXCEPT ![c] = NoReq]
    /\ Respond(c, 200)
    /\ UNCHANGED <<authVars, fire_incidents, sensor_readings, broadcasts, clock,
                   nreq, wkVars, rxVars>>

-----------------------------------------------------------------------------
(* signup, src/api/main.py 874-926 *)

\* SELECT id FROM users WHERE username = %s OR (email = %s AND email IS NOT NULL)
UserTaken(us, body) ==
    \E i \in DOMAIN us :
        \/ us[i].username = body.username
        \/ (us[i].email = body.email /\ us[i].email # NoneStr)

\* signup up to the UPDATE of the invite code: the SELECT on organizations,
\* and when it finds nothing the SELECT on invite_codes and the max_uses
\* test; 400 for an unknown code and for a code that reached max_uses
SignupBegin(c, body) ==
    /\ api_pc[c] = "idle"
    /\ LET code == body.invite_code
           Go(org_id, consume) ==
               /\ api_pc' = [api_pc EXCEPT ![c] = "signup_use"]
               /\ api_req' = [api_req EXCEPT ![c] =
                     [op |-> "signup", body |-> body, org_id |-> org_id,
                      consume |-> consume]]
               /\ nreq' = nreq + 1
               /\ UNCHANGED <<authVars, fire_incidents, sensor_readings, gateways,
                              broadcasts, clock, api_resp, wkVars, rxVars>>
           Reject ==
               /\ Respond(c, 400)
               /\ nreq' = nreq + 1
               /\ UNCHANGED <<authVars, fire_incidents, sensor_readings, gateways,
                              broadcasts, clock, api_pc, api_req, wkVars, rxVars>>
       IN  IF code \in DOMAIN OrgInviteCodes
           THEN Go(OrgInviteCodes[code], FALSE)
           ELSE IF code \in DOMAIN invite_codes
           THEN LET invite == invite_codes[code]
                IN  IF invite.max_uses > 0 /\ invite.uses >= invite.max_uses
                    THEN Reject
                    ELSE Go(invite.org_id, TRUE)
           ELSE Reject

\* signup from the UPDATE to the username check: UPDATE invite_codes SET
\* uses = uses + 1 and conn.commit() when the code came from invite_codes,
\* then the SELECT on users; 400 if the username or e-mail is taken
SignupUse(c) ==
    /\ api_pc[c] = "signup_use"
    /\ LET r == api_req[c]
       IN  /\ invite_codes' =
                 IF r.consume
                 THEN [invite_codes EXCEPT ![r.body.invite_code].uses = @ + 1]
                 ELSE invite_codes
           /\ IF UserTaken(users, r.body)
              THEN /\ api_pc' = [api_pc EXCEPT ![c] = "idle"]
                   /\ api_req' = [api_req EXCEPT ![c] = NoReq]
                   /\ Respond(c, 400)
              ELSE /\ api_pc' = [api_pc EXCEPT ![c] = "signup_insert"]
                   /\ UNCHANGED <<api_req, api_resp>>
    /\ UNCHANGED <<users, fire_incidents, sensor_readings, gateways, broadcasts,
                   clock, nreq, wkVars, rxVars>>

\* the rest of signup: INSERT INTO users, conn.commit(), 200
SignupInsert(c) ==
    /\ api_pc[c] = "signup_insert"
    /\ LET r == api_req[c]
       IN  users' = Append(users,
              [username |-> r.body.username, email |-> r.body.email,
               org_id |-> r.org_id])
    /\ api_pc' = [api_pc EXCEPT ![c] = "idle"]
    /\ api_req' = [api_req EXCEPT ![c] = NoReq]
    /\ Respond(c, 200)
    /\ UNCHANGED <<invite_codes, fire_incidents, sensor_readings, gateways,
                   broadcasts, clock, nreq, wkVars, rxVars>>

-----------------------------------------------------------------------------
(* Specifications of the API *)

InitApi ==
    /\ fire_incidents = <<>>
    /\ sensor_readings = <<>>
    /\ gateways = <<[gateway_id |-> "GW1", org_id |-> 1, status |-> "active"],
                    [gateway_id |-> "GW2", org_id |-> 2, status |-> "active"]>>
    /\ broadcasts = <<>>
    /\ clock = 1
    /\ api_pc = [c \in Conns |-> "idle"]
    /\ api_req = [c \in Conns |-> NoReq]
    /\ api_resp = [c \in Conns |-> 0]
    /\ nreq = 0
    /\ wk_pc = [w \in Workers |-> "idle"]
    /\ wk_loc = [w \in Workers |-> NoMsg]
    /\ posts = <<>>
    /\ nmsg = 0
    /\ wk_conn = [w \in Workers |-> 0]
    /\ rx_pc = "off"
    /\ rx_loc = NoFrame
    /\ op_mode = "sleep"
    /\ irq_flags = {}
    /\ fifo = <<>>
    /\ rssi_reg = 0
    /\ snr_reg = 0
    /\ radio_tx = <<>>
    /\ published = <<>>
    /\ nframes = 0
    /\ users = InitUsers
    /\ invite_codes = InitInviteCodes

IncidentIds == 1..2

\* every other connection is idle: requests are handled one at a time
AllIdle == \A c \in Conns : api_pc[c] = "idle"

\* one uvicorn process: a handler has no await between connect and commit,
\* so the handlers' database sections never interleave
NextSerial ==
    \/ \E kind \in SimKinds, rq \in SimRequests :
          AllIdle /\ nreq < MaxReq /\ SimBegin(1, kind, rq[1], rq[2], rq[3])
    \/ SimFinish(1)
    \/ \E id \in IncidentIds, notes \in NotesIn :
          AllIdle /\ nreq < MaxReq /\ ResolveBegin(1, id, notes)
    \/ ResolveFinish(1)

SpecSerial == InitApi /\ [][NextSerial]_vars

\* several API processes (or workers) on the same database: each connection
\* runs its handler's steps, and the steps of different connections interleave
NextConc ==
    \/ \E c \in Conns, kind \in SimKinds, rq \in SimRequests :
          nreq < MaxConcReq /\ SimBegin(c, kind, rq[1], rq[2], rq[3])
    \/ \E c \in Conns : SimFinish(c)
    \/ \E c \in Conns, id \in IncidentIds, notes \in NotesIn :
          nreq < MaxConcReq /\ ResolveBegin(c, id, notes)
    \/ \E c \in Conns : ResolveFinish(c)

SpecConc == InitApi /\ [][NextConc]_vars

\* the requests of a non-admin user of organization 1 (Member), on connection
\* 2, among the requests of everybody else (issued here as Admin, on
\* connection 1), one request at a time.  get_current_user only
\* authenticates; what a handler does with current_user is in SimAuth, and
\* resolve_incident does not read it.
NextOrg ==
    \/ \E kind \in SimKinds, rq \in {<<"N1", "GW1">>, <<"N2", "GW2">>} :
          AllIdle /\ nreq < MaxReq /\ SimBegin(1, kind, Admin, rq[1], rq[2])
    \/ SimFinish(1)
    \/ \E kind \in SimKinds, n \in Nodes, g \in GatewayIds :
          AllIdle /\ nreq < MaxReq /\ SimBegin(2, kind, Member, n, g)
    \/ SimFinish(2)
    \/ \E id \in IncidentIds, notes \in NotesIn :
          AllIdle /\ nreq < MaxReq /\ ResolveBegin(2, id, notes)
    \/ ResolveFinish(2)

SpecOrg == InitApi /\ [][NextOrg]_vars

\* POST /signup, one request at a time
NextSignup ==
    \/ \E body \in SignupBodies : AllIdle /\ nreq < MaxReq /\ SignupBegin(1, body)
    \/ SignupUse(1)
    \/ SignupInsert(1)

SpecSignup == InitApi /\ [][NextSignup]_vars

\* POST /signup on several API processes: the steps of different
\* connections interleave
NextSignupConc ==
    \/ \E c \in Conns, body \in SignupBodies : nreq < MaxConcReq /\ SignupBegin(c, body)
    \/ \E c \in Conns : SignupUse(c)
    \/ \E c \in Conns : SignupInsert(c)

SpecSignupConc == InitApi /\ [][NextSignupConc]_vars


-----------------------------------------------------------------------------
(* upsert_fire_incident called directly, one reading at a time *)

\* the readings handed to upsert_fire_incident: labels in several cases, a
\* label outside the table, a missing label; dicts with and without the
\* optional keys (confidence, sensor fields, local_timestamp)
Readings ==
    UNION {{
        [node_id |-> n, gateway_id |-> "GW1", ai_prediction |-> "fire",
         confidence |-> 80, temperature |-> 480, humidity |-> 30, flame |-> 1,
         smoke |-> 700, latitude |-> 160435, longitude |-> 1203351],
        [node_id |-> n, gateway_id |-> "GW1", ai_prediction |-> "FIRE",
         local_timestamp |-> 1],
        [node_id |-> n, gateway_id |-> "GW1", ai_prediction |-> "false",
         confidence |-> 40, temperature |-> 350, humidity |-> 45, flame |-> 0,
         smoke |-> 300, latitude |-> 160435, longitude |-> 1203351],
        [node_id |-> n, gateway_id |-> "GW1", ai_prediction |-> "normal"],
        [node_id |-> n, gateway_id |-> "GW1"]
      } : n \in Nodes}

\* upsert_fire_incident(cur, reading) followed by the caller's conn.commit()
UpsertCall(c, reading) ==
    /\ api_pc[c] = "idle"
    /\ \E now \in {clock, clock + 1} :
         /\ clock' = now
         /\ fire_incidents' \in UpsertFireIncident(fire_incidents, reading, now)
    /\ nreq' = nreq + 1
    /\ UNCHANGED <<authVars, sensor_readings, gateways, broadcasts, api_pc, api_req, api_resp, wkVars, rxVars>>

NextUpsert ==
    \/ \E r \in Readings : nreq < MaxReq /\ UpsertCall(1, r)
    \/ \E id \in IncidentIds, notes \in NotesIn :
          AllIdle /\ nreq < MaxReq /\ ResolveBegin(1, id, notes)
    \/ ResolveFinish(1)

SpecUpsert == InitApi /\ [][NextUpsert]_vars


-----------------------------------------------------------------------------
(* The classification worker, src/worker/ai_inference.py *)

\* broker messages: msg.payload is a JSON text or not; data is what
\* json.loads returns.  A payload with the key not_object stands for a
\* payload that is not an object (payload.get raises AttributeError).
EnvFire ==
    [body |-> "json",
     data |-> [gateway |-> "GW1", rssi |-> -68, snr |-> 7, received_at |-> 11,
               payload |-> [node |-> "N1", temp |-> 523, hum |-> 25,
                            flame |-> 1, smoke |-> 920,
                            lat |-> 160435, lon |-> 1203351]]]
EnvNormal ==
    [body |-> "json",
     data |-> [gateway |-> "GW1", rssi |-> -70, snr |-> 6, received_at |-> 12,
               payload |-> [node |-> "N1", temp |-> 245, hum |-> 61,
                            flame |-> 0, smoke |-> 0,
                            lat |-> 160435, lon |-> 1203351]]]
EnvWeakFire ==
    [body |-> "json",
     data |-> [gateway |-> "GW9", rssi |-> -90, snr |-> 2, received_at |-> 13,
               payload |-> [node |-> "N2", temp |-> 385, hum |-> 40,
                            flame |-> 1, smoke |-> 450]]]
EnvSparse ==
    [body |-> "json",
     data |-> [gateway |-> "GW9", received_at |-> 14,
               payload |-> [node |-> "N2"]]]
EnvNoGateway ==
    [body |-> "json",
     data |-> [received_at |-> 15, payload |-> [node |-> "N1", temp |-> 523]]]
EnvEmptyNode ==
    [body |-> "json",
     data |-> [gateway |-> "GW9", received_at |-> 16,
               payload |-> [node |-> "", temp |-> 523]]]
EnvNoNode ==
    [body |-> "json",
     data |-> [gateway |-> "GW1", received_at |-> 17, payload |-> [temp |-> 523]]]
EnvBadPayload ==
    [body |-> "json", data |-> [gateway |-> "GW1", payload |-> [not_object |-> TRUE]]]
EnvGarbage == [body |-> "garbage"]

Envelopes == {EnvFire, EnvNormal, EnvWeakFire, EnvSparse,
              EnvNoGateway, EnvEmptyNode, EnvNoNode, EnvBadPayload, EnvGarbage}

\* mutant: the columns in the payload's order (temp, hum, flame, smoke)
FeaturesReordered(payload) ==
    <<Get(payload, "temp", NULL), Get(payload, "hum", NULL),
      Get(payload, "flame", 0), Get(payload, "smoke", 0)>>

\* input_df = [[smoke, temp, flame, hum]] with flame / smoke defaulting to 0
Features(payload) ==
    <<Get(payload, "smoke", 0), Get(payload, "temp", NULL),
      Get(payload, "flame", 0), Get(payload, "hum", NULL)>>

\* the external classifier (scaler.transform, model.predict_proba, argmax,
\* class_names): a pure function of the feature vector
Classify(vec) ==
    CASE vec = <<920, 523, 1, 25>> -> [label |-> "fire",   confidence |-> 95]
      [] vec = <<0, 245, 0, 61>>   -> [label |-> "normal", confidence |-> 99]
      [] vec = <<450, 385, 1, 40>> -> [label |-> "Fire",   confidence |-> 40]
      [] OTHER                     -> [label |-> "normal", confidence |-> 60]

\* str(final_label).lower().strip()
LowerStrip(s) == Lower(s)

\* the decision whether to post an incident_update
ShouldBroadcastIncident(final_label, confidence) ==
    LET l == LowerStrip(final_label)
    IN  \/ l = "fire" /\ confidence >= 50
        \/ l \in {"normal", "false", "no fire", "safe", "none"} /\ confidence >= 70

\* not x, for the values gateway_id and node take (None or a string)
Falsy(x) == x = NoneStr \/ x = ""

\* conn = mysql.connector.connect(...) succeeded / conn.close()
WkConnOpen(w) == wk_conn' = [wk_conn EXCEPT ![w] = @ + 1]
WkConnClose(w) == wk_conn' = [wk_conn EXCEPT ![w] = @ - 1]
WkConnKeep == wk_conn' = wk_conn

WkSet(w, pc, loc) ==
    /\ wk_pc' = [wk_pc EXCEPT ![w] = pc]
    /\ wk_loc' = [wk_loc EXCEPT ![w] = loc]

\* on_message returns (or its outer except swallowed the error)
WkReturn(w) == WkSet(w, "idle", NoMsg)

\* mutant: a failed classifier call is not fatal to the message, the reading
\* goes on unclassified
WkReceiveUnclassified(w, msg) ==
    /\ wk_pc[w] = "idle"
    /\ nmsg' = nmsg + 1
    /\ UNCHANGED <<authVars, fire_incidents, sensor_readings, gateways, broadcasts, clock,
                   apiVars, posts, wk_conn, rxVars>>
    /\ IF msg.body # "json" THEN WkReturn(w)
       ELSE LET wrapper    == msg.data
                gateway_id == Get(wrapper, "gateway", NoneStr)
                payload    == Get(wrapper, "payload", <<>>)
            IN  IF "not_object" \in DOMAIN payload THEN WkReturn(w)
                ELSE IF Falsy(gateway_id) THEN WkReturn(w)
                ELSE IF Falsy(Get(payload, "node", NoneStr)) THEN WkReturn(w)
                ELSE \E classifier_ok \in BOOLEAN :
                     LET out == IF classifier_ok THEN Classify(Features(payload))
                                ELSE [label |-> "unknown", confidence |-> 0]
                          IN  WkSet(w, "connect",
                                [node         |-> payload.node,
                                 gateway_id   |-> gateway_id,
                                 ph_timestamp |-> Get(wrapper, "received_at", NULL),
                                 temp  |-> Get(payload, "temp", NULL),
                                 hum   |-> Get(payload, "hum", NULL),
                                 flame |-> Get(payload, "flame", 0),
                                 smoke |-> Get(payload, "smoke", 0),
                                 lat   |-> Get(payload, "lat", NULL),
                                 lon   |-> Get(payload, "lon", NULL),
                                 rssi  |-> Get(wrapper, "rssi", NULL),
                                 snr   |-> Get(wrapper, "snr", NULL),
                                 final_label |-> out.label,
                                 confidence  |-> out.confidence])

\* on_message up to the classifier: decode, json.loads, the gateway / node
\* checks, the field extraction, the classifier call (which may raise)
WkReceive(w, msg) ==
    /\ wk_pc[w] = "idle"
    /\ nmsg' = nmsg + 1
    /\ UNCHANGED <<authVars, fire_incidents, sensor_readings, gateways, broadcasts, clock,
                   apiVars, posts, wk_conn, rxVars>>
    /\ IF msg.body # "json" THEN WkReturn(w)
       ELSE LET wrapper    == msg.data
                gateway_id == Get(wrapper, "gateway", NoneStr)
                payload    == Get(wrapper, "payload", <<>>)
            IN  IF "not_object" \in DOMAIN payload THEN WkReturn(w)
                ELSE IF Falsy(gateway_id) THEN WkReturn(w)
                ELSE IF Falsy(Get(payload, "node", NoneStr)) THEN WkReturn(w)
                ELSE \E classifier_ok \in BOOLEAN :
                     IF ~classifier_ok THEN WkReturn(w)
                     ELSE LET out == Classify(Features(payload))
                          IN  WkSet(w, "connect",
                                [node         |-> payload.node,
                                 gateway_id   |-> gateway_id,
                                 ph_timestamp |-> Get(wrapper, "received_at", NULL),
                                 temp  |-> Get(payload, "temp", NULL),
                                 hum   |-> Get(payload, "hum", NULL),
                                 flame |-> Get(payload, "flame", 0),
                                 smoke |-> Get(payload, "smoke", 0),
                                 lat   |-> Get(payload, "lat", NULL),
                                 lon   |-> Get(payload, "lon", NULL),
                                 rssi  |-> Get(wrapper, "rssi", NULL),
                                 snr   |-> Get(wrapper, "snr", NULL),
                                 final_label |-> out.label,
                                 confidence  |-> out.confidence])

\* conn = mysql.connector.connect(**DB_CONFIG); a failure is caught by the
\* outer except
WkConnect(w) ==
    /\ wk_pc[w] = "connect"
    /\ \E ok \in BOOLEAN :
         IF ok THEN WkSet(w, "gw_select", wk_loc[w]) /\ WkConnOpen(w)
         ELSE WkReturn(w) /\ WkConnKeep
    /\ UNCHANGED <<authVars, fire_incidents, sensor_readings, gateways, broadcasts, clock,
                   apiVars, posts, nmsg, rxVars>>

\* mutant: ensure_gateway_exists without the lookup result (always inserts)
WkGatewaySelectNeverFinds(w) ==
    /\ wk_pc[w] = "gw_select"
    /\ \E ok \in BOOLEAN :
         IF ~ok THEN WkSet(w, "insert_reading", wk_loc[w])
         ELSE WkSet(w, "gw_insert", wk_loc[w])
    /\ UNCHANGED <<authVars, fire_incidents, sensor_readings, gateways, broadcasts, clock,
                   apiVars, posts, nmsg, wk_conn, rxVars>>

\* ensure_gateway_exists: SELECT 1 FROM gateways WHERE gateway_id = %s LIMIT 1;
\* a database error is caught inside ensure_gateway_exists (rollback)
WkGatewaySelect(w) ==
    /\ wk_pc[w] = "gw_select"
    /\ \E ok \in BOOLEAN :
         IF ~ok THEN WkSet(w, "insert_reading", wk_loc[w])
         ELSE IF \E i \in DOMAIN gateways :
                    gateways[i].gateway_id = wk_loc[w].gateway_id
              THEN WkSet(w, "insert_reading", wk_loc[w])
              ELSE WkSet(w, "gw_insert", wk_loc[w])
    /\ UNCHANGED <<authVars, fire_incidents, sensor_readings, gateways, broadcasts, clock,
                   apiVars, posts, nmsg, wk_conn, rxVars>>

\* the row ensure_gateway_exists inserts: org_id omitted (NULL)
AutoGateway(gateway_id) ==
    [gateway_id |-> gateway_id, org_id |-> NULL, status |-> "maintenance"]

\* ensure_gateway_exists: INSERT INTO gateways ...; conn.commit(), or a
\* database error and conn.rollback()
WkGatewayInsert(w) ==
    /\ wk_pc[w] = "gw_insert"
    /\ \E ok \in BOOLEAN :
         gateways' = IF ok THEN Append(gateways, AutoGateway(wk_loc[w].gateway_id))
                     ELSE gateways
    /\ WkSet(w, "insert_reading", wk_loc[w])
    /\ UNCHANGED <<authVars, fire_incidents, sensor_readings, broadcasts, clock,
                   apiVars, posts, nmsg, wk_conn, rxVars>>

\* the row on_message inserts into sensor_readings
WkSensorRow(loc) ==
    [gateway_id |-> loc.gateway_id, node_id |-> loc.node,
     timestamp |-> loc.ph_timestamp, local_timestamp |-> loc.ph_timestamp,
     temperature |-> loc.temp, humidity |-> loc.hum, flame |-> loc.flame,
     smoke |-> loc.smoke, latitude |-> loc.lat, longitude |-> loc.lon,
     rssi |-> loc.rssi, snr |-> loc.snr,
     ai_prediction |-> loc.final_label, confidence |-> loc.confidence]

\* mutant: the reading is written over the newest row instead of appended
WkInsertReadingOverwrites(w) ==
    /\ wk_pc[w] = "insert_reading"
    /\ \E ok \in BOOLEAN :
         IF ok
         THEN /\ sensor_readings' =
                    IF sensor_readings = <<>>
                    THEN <<WkSensorRow(wk_loc[w])>>
                    ELSE [sensor_readings EXCEPT
                            ![Len(sensor_readings)] = WkSensorRow(wk_loc[w])]
              /\ WkSet(w, "notify_incident", wk_loc[w])
              /\ WkConnKeep
         ELSE /\ sensor_readings' = sensor_readings
              /\ WkReturn(w)
              /\ WkConnClose(w)
    /\ UNCHANGED <<authVars, fire_incidents, gateways, broadcasts, clock,
                   apiVars, posts, nmsg, rxVars>>

\* INSERT INTO sensor_readings ...; conn.commit(), or a database error:
\* conn.rollback(), the finally block, return
WkInsertReading(w) ==
    /\ wk_pc[w] = "insert_reading"
    /\ \E ok \in BOOLEAN :
         IF ok
         THEN /\ sensor_readings' = Append(sensor_readings, WkSensorRow(wk_loc[w]))
              /\ WkSet(w, "notify_incident", wk_loc[w])
              /\ WkConnKeep
         ELSE /\ sensor_readings' = sensor_readings
              /\ WkReturn(w)
              /\ WkConnClose(w)
    /\ UNCHANGED <<authVars, fire_incidents, gateways, broadcasts, clock,
                   apiVars, posts, nmsg, rxVars>>

\* the incident_update dict
IncidentUpdate(loc) ==
    [type |-> "incident_update", node_id |-> loc.node,
     ai_prediction |-> loc.final_label, confidence |-> loc.confidence,
     timestamp |-> loc.ph_timestamp, latitude |-> loc.lat,
     longitude |-> loc.lon, gateway_id |-> loc.gateway_id]

\* the new_reading dict (it has no "type" key; confidence is formatted as a
\* percentage string)
NewReading(loc) ==
    [node_id |-> loc.node, gateway_id |-> loc.gateway_id,
     timestamp |-> loc.ph_timestamp, temperature |-> loc.temp,
     humidity |-> loc.hum, flame |-> loc.flame, smoke |-> loc.smoke,
     latitude |-> loc.lat, longitude |-> loc.lon, rssi |-> loc.rssi,
     snr |-> loc.snr, ai_prediction |-> loc.final_label,
     confidence |-> <<loc.confidence, "%">>]

\* mutant: a failed incident_update post ends the handler
WkNotifyIncidentAbortsOnFailure(w) ==
    /\ wk_pc[w] = "notify_incident"
    /\ IF ShouldBroadcastIncident(wk_loc[w].final_label, wk_loc[w].confidence)
       THEN \E delivered \in BOOLEAN :
              /\ posts' = Append(posts, [body |-> IncidentUpdate(wk_loc[w]),
                                         delivered |-> delivered])
              /\ IF delivered THEN WkSet(w, "notify_reading", wk_loc[w])
                 ELSE WkReturn(w)
       ELSE /\ posts' = posts
            /\ WkSet(w, "notify_reading", wk_loc[w])
    /\ UNCHANGED <<authVars, fire_incidents, sensor_readings, gateways, broadcasts, clock,
                   apiVars, nmsg, wk_conn, rxVars>>

\* the incident_update decision and, when it says so, requests.post(...,
\* timeout=2) inside try / except Exception
WkNotifyIncident(w) ==
    /\ wk_pc[w] = "notify_incident"
    /\ IF ShouldBroadcastIncident(wk_loc[w].final_label, wk_loc[w].confidence)
       THEN \E delivered \in BOOLEAN :
              posts' = Append(posts, [body |-> IncidentUpdate(wk_loc[w]),
                                      delivered |-> delivered])
       ELSE posts' = posts
    /\ WkSet(w, "notify_reading", wk_loc[w])
    /\ UNCHANGED <<authVars, fire_incidents, sensor_readings, gateways, broadcasts, clock,
                   apiVars, nmsg, wk_conn, rxVars>>

\* mutant: the new_reading post is made only when no incident_update was posted
WkNotifyReadingUnlessIncident(w) ==
    /\ wk_pc[w] = "notify_reading"
    /\ IF ShouldBroadcastIncident(wk_loc[w].final_label, wk_loc[w].confidence)
       THEN posts' = posts
       ELSE \E delivered \in BOOLEAN :
              posts' = Append(posts, [body |-> NewReading(wk_loc[w]),
                                      delivered |-> delivered])
    /\ WkReturn(w)
    /\ WkConnClose(w)
    /\ UNCHANGED <<authVars, fire_incidents, sensor_readings, gateways, broadcasts, clock,
                   apiVars, nmsg, rxVars>>

\* requests.post(new_reading, timeout=2) inside try / except Exception, the
\* finally block (cur.close(), conn.close()), return
WkNotifyReading(w) ==
    /\ wk_pc[w] = "notify_reading"
    /\ \E delivered \in BOOLEAN :
         posts' = Append(posts, [body |-> NewReading(wk_loc[w]),
                                 delivered |-> delivered])
    /\ WkReturn(w)
    /\ WkConnClose(w)
    /\ UNCHANGED <<authVars, fire_incidents, sensor_readings, gateways, broadcasts, clock,
                   apiVars, nmsg, rxVars>>

\* the tables the worker starts on: the registry knows GW1; the incident
\* table is empty or holds an active incident of N1 (opened through the API)
InitWorker ==
    /\ fire_incidents \in
          {<<>>, InsertIncident(<<>>, SimReading("fire", "N1", "GW1", 1), 1)}
    /\ sensor_readings = <<>>
    /\ gateways = <<[gateway_id |-> "GW1", org_id |-> 1, status |-> "active"]>>
    /\ broadcasts = <<>>
    /\ clock = 1
    /\ api_pc = [c \in Conns |-> "idle"]
    /\ api_req = [c \in Conns |-> NoReq]
    /\ api_resp = [c \in Conns |-> 0]
    /\ nreq = 0
    /\ wk_pc = [w \in Workers |-> "idle"]
    /\ wk_loc = [w \in Workers |-> NoMsg]
    /\ posts = <<>>
    /\ nmsg = 0
    /\ wk_conn = [w \in Workers |-> 0]
    /\ rx_pc = "off"
    /\ rx_loc = NoFrame
    /\ op_mode = "sleep"
    /\ irq_flags = {}
    /\ fifo = <<>>
    /\ rssi_reg = 0
    /\ snr_reg = 0
    /\ radio_tx = <<>>
    /\ published = <<>>
    /\ nframes = 0
    /\ users = InitUsers
    /\ invite_codes = InitInviteCodes

\* one worker instance, one message in flight (client.loop_forever)
NextWorker ==
    \/ \E msg \in Envelopes : nmsg < MaxMsgs /\ WkReceive(1, msg)
    \/ WkConnect(1)
    \/ WkGatewaySelect(1)
    \/ WkGatewayInsert(1)
    \/ WkInsertReading(1)
    \/ WkNotifyIncident(1)
    \/ WkNotifyReading(1)

SpecWorker == InitWorker /\ [][NextWorker]_vars

\* two worker instances subscribed to the same topic, each with one message
\* in flight, next to an API process handling POST /gateways: every one has
\* its own database connection, and their statements interleave
NextProvision ==
    \/ \E w \in Workers, msg \in {EnvFire, EnvWeakFire, EnvSparse} :
          nmsg < MaxMsgs /\ WkReceive(w, msg)
    \/ \E w \in Workers : WkConnect(w)
    \/ \E w \in Workers : WkGatewaySelect(w)
    \/ \E w \in Workers : WkGatewayInsert(w)
    \/ \E w \in Workers : WkInsertReading(w)
    \/ \E w \in Workers : WkNotifyIncident(w)
    \/ \E w \in Workers : WkNotifyReading(w)
    \/ \E user \in {Admin, Member}, g \in {"GW1", "GW9"} :
          nreq < MaxReq /\ RegisterBegin(1, user, g)
    \/ RegisterFinish(1)

SpecProvision == InitWorker /\ [][NextProvision]_vars

-----------------------------------------------------------------------------
(* The worker without classifier, src/worker/main.py; it runs as worker 2 *)

\* on_message up to the insert: decode, json.loads, the node check, the field
\* extraction; every exception is caught by the except at the end
LgReceive(w, msg) ==
    /\ wk_pc[w] = "idle"
    /\ nmsg' = nmsg + 1
    /\ UNCHANGED <<authVars, fire_incidents, sensor_readings, gateways, broadcasts, clock,
                   apiVars, posts, wk_conn, rxVars>>
    /\ IF msg.body # "json" THEN WkReturn(w)
       ELSE LET wrapper == msg.data
                payload == Get(wrapper, "payload", <<>>)
            IN  IF "not_object" \in DOMAIN payload THEN WkReturn(w)
                ELSE IF Falsy(Get(payload, "node", NoneStr)) THEN WkReturn(w)
                ELSE WkSet(w, "lg_insert",
                       [node         |-> payload.node,
                        ph_timestamp |-> Get(wrapper, "received_at", NULL),
                        temp  |-> Get(payload, "temp", NULL),
                        hum   |-> Get(payload, "hum", NULL),
                        flame |-> Get(payload, "flame", 0),
                        smoke |-> Get(payload, "smoke", 0),
                        lat   |-> Get(payload, "lat", NULL),
                        lon   |-> Get(payload, "lon", NULL),
                        rssi  |-> Get(wrapper, "rssi", NULL),
                        snr   |-> Get(wrapper, "snr", NULL)])

\* the row this on_message inserts: the columns gateway_id, ai_prediction and
\* confidence are not in its INSERT and stay NULL
LgSensorRow(loc) ==
    [gateway_id |-> NoneStr, node_id |-> loc.node,
     timestamp |-> loc.ph_timestamp, local_timestamp |-> loc.ph_timestamp,
     temperature |-> loc.temp, humidity |-> loc.hum, flame |-> loc.flame,
     smoke |-> loc.smoke, latitude |-> loc.lat, longitude |-> loc.lon,
     rssi |-> loc.rssi, snr |-> loc.snr,
     ai_prediction |-> NoneStr, confidence |-> NULL]

\* connect, INSERT INTO sensor_readings, commit, cur.close(), conn.close();
\* or an error, caught and printed by the except at the end: when connect
\* raised there is no connection, when execute or commit raised the close
\* calls are skipped and the connection is left open
LgInsert(w) ==
    /\ wk_pc[w] = "lg_insert"
    /\ \E outcome \in {"ok", "connect_error", "write_error"} :
         /\ sensor_readings' =
               IF outcome = "ok" THEN Append(sensor_readings, LgSensorRow(wk_loc[w]))
               ELSE sensor_readings
         /\ IF outcome = "write_error" THEN WkConnOpen(w) ELSE WkConnKeep
    /\ WkReturn(w)
    /\ UNCHANGED <<authVars, fire_incidents, gateways, broadcasts, clock,
                   apiVars, posts, nmsg, rxVars>>

NextLegacyWorker ==
    \/ \E msg \in Envelopes : nmsg < MaxMsgs /\ LgReceive(2, msg)
    \/ LgInsert(2)

SpecLegacyWorker == InitWorker /\ [][NextLegacyWorker]_vars

-----------------------------------------------------------------------------
(* The radio gateway, src/rpi-to-mqtt/rpi-mqtt.py *)
(* REG_OP_MODE values are named: 0x80 sleep, 0x81 standby, 0x83 tx, 0x85     *)
(* rx_continuous.  REG_IRQ_FLAGS is the set of its set bits: RX_DONE 0x40,   *)
(* CRC 0x20 (PayloadCrcError), TX_DONE 0x08, VALID_HEADER 0x10.  A packet is *)
(* the sequence of the lexical tokens of its text.  SNR is in quarter dB.   *)

GATEWAY_ID == "GW1"

PktFull      == <<"{", "node", ":", "N1", ",", "temp", ":", "52.3", "}">>
PktNodeOnly  == <<"{", "node", ":", "N2", "}">>
PktNoNode    == <<"{", "temp", ":", "52.3", "}">>
PktEmptyNode == <<"{", "node", ":", "", "}">>
PktText      == <<"hello">>
PktTruncated == <<"{", "node", ":", "N1">>
PktBadJson   == <<"{", "node", "N1", "}">>
PktEmpty     == <<>>

\* what reaches the receiver: the IRQ flags the modem raises, the packet it
\* leaves in the FIFO, the packet RSSI and SNR register values
Frames ==
    {[flags |-> {"RX_DONE"}, payload |-> PktFull,      rssi |-> 96, snr |-> 28],
     [flags |-> {"RX_DONE"}, payload |-> PktNodeOnly,  rssi |-> 70, snr |-> 250],
     [flags |-> {"RX_DONE", "CRC"}, payload |-> PktFull, rssi |-> 60, snr |-> 240],
     [flags |-> {"CRC"},     payload |-> PktNodeOnly,  rssi |-> 60, snr |-> 240],
     [flags |-> {"VALID_HEADER"}, payload |-> PktEmpty, rssi |-> 80, snr |-> 20],
     [flags |-> {"RX_DONE"}, payload |-> PktNoNode,    rssi |-> 90, snr |-> 24],
     [flags |-> {"RX_DONE"}, payload |-> PktEmptyNode, rssi |-> 90, snr |-> 24],
     [flags |-> {"RX_DONE"}, payload |-> PktText,      rssi |-> 90, snr |-> 24],
     [flags |-> {"RX_DONE"}, payload |-> PktTruncated, rssi |-> 90, snr |-> 24],
     [flags |-> {"RX_DONE"}, payload |-> PktBadJson,   rssi |-> 90, snr |-> 24],
     [flags |-> {"RX_DONE"}, payload |-> PktEmpty,     rssi |-> 90, snr |-> 24]}

\* rssi_dbm(): read_reg(REG_PKT_RSSI_VALUE) - 164
RssiDbm(reg) == reg - 164

\* snr_db(): (v - 256 if v & 0x80 else v) / 4, here without the division
SnrDb(v) == IF v >= 128 THEN v - 256 ELSE v

\* raw.startswith("{") / raw.endswith("}")
StartsWithBrace(raw) == Len(raw) > 0 /\ raw[1] = "{"
EndsWithBrace(raw) == Len(raw) > 0 /\ raw[Len(raw)] = "}"

Punctuation == {"{", "}", ":", ","}

\* json.loads on a text that starts with "{" and ends with "}": the tokens
\* between the braces are key : value pairs separated by commas
JsonInner(raw) == SubSeq(raw, 2, Len(raw) - 1)
JsonParses(raw) ==
    LET inner == JsonInner(raw)
    IN  /\ Len(raw) >= 2
        /\ \/ Len(inner) = 0
           \/ /\ Len(inner) % 4 = 3
              /\ \A j \in DOMAIN inner :
                    CASE j % 4 = 1 -> inner[j] \notin Punctuation
                      [] j % 4 = 2 -> inner[j] = ":"
                      [] j % 4 = 3 -> inner[j] \notin Punctuation
                      [] OTHER     -> inner[j] = ","
JsonLoads(raw) ==
    LET inner == JsonInner(raw)
        keyAt == {j \in DOMAIN inner : j % 4 = 1}
    IN  [k \in {inner[j] : j \in keyAt} |->
            inner[(CHOOSE j \in keyAt :
                     inner[j] = k /\ \A i \in keyAt : inner[i] = k => i <= j) + 2]]

RxSet(pc, loc) == rx_pc' = pc /\ rx_loc' = loc

\* radio init: sleep (the initial state), then standby
RadioInitStandby ==
    /\ rx_pc = "off"
    /\ op_mode' = "standby"
    /\ RxSet("init", rx_loc)
    /\ UNCHANGED <<authVars, dbVars, clock, apiVars, wkVars, irq_flags, fifo, rssi_reg,
                   snr_reg, radio_tx, published, nframes>>

\* radio init: frequency and modem configuration, IRQ flags cleared,
\* rx_continuous
RadioInitRx ==
    /\ rx_pc = "init"
    /\ irq_flags' = {}
    /\ op_mode' = "rx_continuous"
    /\ RxSet("poll", rx_loc)
    /\ UNCHANGED <<authVars, dbVars, clock, apiVars, wkVars, fifo, rssi_reg, snr_reg,
                   radio_tx, published, nframes>>

\* the modem finishes receiving a frame, at any point of the loop; it
\* receives only in rx_continuous
FrameArrives(fr) ==
    /\ op_mode = "rx_continuous"
    /\ irq_flags' = irq_flags \cup fr.flags
    /\ fifo' = fr.payload
    /\ rssi_reg' = fr.rssi
    /\ snr_reg' = fr.snr
    /\ nframes' = nframes + 1
    /\ UNCHANGED <<authVars, dbVars, clock, apiVars, wkVars, rx_pc, rx_loc, op_mode,
                   radio_tx, published>>

\* irq = read_reg(REG_IRQ_FLAGS); with no flag set the loop sleeps and polls
\* again
RxPoll ==
    /\ rx_pc = "poll"
    /\ irq_flags # {}
    /\ RxSet("clear", [irq |-> irq_flags])
    /\ UNCHANGED <<authVars, dbVars, clock, apiVars, wkVars, op_mode, irq_flags, fifo,
                   rssi_reg, snr_reg, radio_tx, published, nframes>>

\* mutant: the flags read are not written back
RxClearNoWriteBack ==
    /\ rx_pc = "clear"
    /\ irq_flags' = irq_flags
    /\ IF "CRC" \in rx_loc.irq THEN RxSet("poll", NoFrame)
       ELSE IF "RX_DONE" \in rx_loc.irq THEN RxSet("read_fifo", rx_loc)
       ELSE RxSet("poll", NoFrame)
    /\ UNCHANGED <<authVars, dbVars, clock, apiVars, wkVars, op_mode, fifo, rssi_reg,
                   snr_reg, radio_tx, published, nframes>>

\* mutant: the CRC test is left out
RxClearNoCrc ==
    /\ rx_pc = "clear"
    /\ irq_flags' = irq_flags \ rx_loc.irq
    /\ IF "RX_DONE" \in rx_loc.irq THEN RxSet("read_fifo", rx_loc)
       ELSE RxSet("poll", NoFrame)
    /\ UNCHANGED <<authVars, dbVars, clock, apiVars, wkVars, op_mode, fifo, rssi_reg,
                   snr_reg, radio_tx, published, nframes>>

\* write_reg(REG_IRQ_FLAGS, irq), then the CRC and RX-done tests
RxClear ==
    /\ rx_pc = "clear"
    /\ irq_flags' = irq_flags \ rx_loc.irq
    /\ IF "CRC" \in rx_loc.irq THEN RxSet("poll", NoFrame)
       ELSE IF "RX_DONE" \in rx_loc.irq THEN RxSet("read_fifo", rx_loc)
       ELSE RxSet("poll", NoFrame)
    /\ UNCHANGED <<authVars, dbVars, clock, apiVars, wkVars, op_mode, fifo, rssi_reg,
                   snr_reg, radio_tx, published, nframes>>

\* the FIFO read, the brace test, json.loads, the node test
RxReadFifo ==
    /\ rx_pc = "read_fifo"
    /\ LET raw == fifo
       IN  IF ~StartsWithBrace(raw) \/ ~EndsWithBrace(raw) THEN RxSet("poll", NoFrame)
           ELSE IF ~JsonParses(raw) THEN RxSet("poll", NoFrame)
           ELSE IF Falsy(Get(JsonLoads(raw), "node", NoneStr)) THEN RxSet("poll", NoFrame)
           ELSE RxSet("capture",
                  [irq |-> rx_loc.irq, raw |-> raw,
                   node_json |-> JsonLoads(raw), node |-> JsonLoads(raw)["node"]])
    /\ UNCHANGED <<authVars, dbVars, clock, apiVars, wkVars, op_mode, irq_flags, fifo,
                   rssi_reg, snr_reg, radio_tx, published, nframes>>

\* mutant: the metrics are captured and the envelope is published before
\* the ACK is sent
RxCaptureNoAck ==
    /\ rx_pc = "capture"
    /\ RxSet("publish",
          [irq |-> rx_loc.irq, raw |-> rx_loc.raw, node_json |-> rx_loc.node_json,
           node |-> rx_loc.node,
           r |-> RssiDbm(rssi_reg), s |-> SnrDb(snr_reg), ts |-> clock,
           ack |-> "none"])
    /\ UNCHANGED <<authVars, dbVars, clock, apiVars, wkVars, op_mode, irq_flags, fifo,
                   rssi_reg, snr_reg, radio_tx, published, nframes>>

\* r = rssi_dbm(); s = snr_db(); ts = datetime.now(PH_TZ).isoformat()
RxCapture ==
    /\ rx_pc = "capture"
    /\ RxSet("ack_standby",
          [irq |-> rx_loc.irq, raw |-> rx_loc.raw, node_json |-> rx_loc.node_json,
           node |-> rx_loc.node,
           r |-> RssiDbm(rssi_reg), s |-> SnrDb(snr_reg), ts |-> clock,
           ack |-> "none"])
    /\ UNCHANGED <<authVars, dbVars, clock, apiVars, wkVars, op_mode, irq_flags, fifo,
                   rssi_reg, snr_reg, radio_tx, published, nframes>>

\* send_ack: standby, the message ACK:<node> written to the FIFO, the
\* payload length, REG_IRQ_FLAGS cleared
SendAckStandby ==
    /\ rx_pc = "ack_standby"
    /\ op_mode' = "standby"
    /\ irq_flags' = {}
    /\ RxSet("ack_tx", rx_loc)
    /\ UNCHANGED <<authVars, dbVars, clock, apiVars, wkVars, fifo, rssi_reg, snr_reg,
                   radio_tx, published, nframes>>

\* send_ack: write_reg(REG_OP_MODE, 0x83), the transmission starts
SendAckTx ==
    /\ rx_pc = "ack_tx"
    /\ op_mode' = "tx"
    /\ radio_tx' = Append(radio_tx, <<"ACK", rx_loc.node>>)
    /\ RxSet("ack_wait", rx_loc)
    /\ UNCHANGED <<authVars, dbVars, clock, apiVars, wkVars, irq_flags, fifo, rssi_reg,
                   snr_reg, published, nframes>>

\* the modem finishes the transmission: TxDone is raised
RadioTxDone ==
    /\ op_mode = "tx"
    /\ "TX_DONE" \notin irq_flags
    /\ irq_flags' = irq_flags \cup {"TX_DONE"}
    /\ UNCHANGED <<authVars, dbVars, clock, apiVars, wkVars, rx_pc, rx_loc, op_mode, fifo,
                   rssi_reg, snr_reg, radio_tx, published, nframes>>

\* mutant: the wait loop has no deadline
SendAckWaitNoDeadline ==
    /\ rx_pc = "ack_wait"
    /\ "TX_DONE" \in irq_flags
    /\ RxSet("ack_restore", [rx_loc EXCEPT !.ack = "tx_done"])
    /\ clock' = clock + 1
    /\ UNCHANGED <<authVars, dbVars, apiVars, wkVars, op_mode, irq_flags, fifo, rssi_reg,
                   snr_reg, radio_tx, published, nframes>>

\* send_ack: the wait loop ends when TX_DONE is read or when 0.8 s have passed
SendAckWait ==
    /\ rx_pc = "ack_wait"
    /\ \/ /\ "TX_DONE" \in irq_flags
          /\ RxSet("ack_restore", [rx_loc EXCEPT !.ack = "tx_done"])
       \/ /\ "TX_DONE" \notin irq_flags
          /\ RxSet("ack_restore", [rx_loc EXCEPT !.ack = "timeout"])
    /\ clock' = clock + 1
    /\ UNCHANGED <<authVars, dbVars, apiVars, wkVars, op_mode, irq_flags, fifo, rssi_reg,
                   snr_reg, radio_tx, published, nframes>>

\* mutant: send_ack returns without writing the mode
SendAckRestoreKeepsMode ==
    /\ rx_pc = "ack_restore"
    /\ irq_flags' = {}
    /\ RxSet("publish", rx_loc)
    /\ UNCHANGED <<authVars, dbVars, clock, apiVars, wkVars, op_mode, fifo, rssi_reg,
                   snr_reg, radio_tx, published, nframes>>

\* send_ack: REG_IRQ_FLAGS cleared, back to rx_continuous
SendAckRestore ==
    /\ rx_pc = "ack_restore"
    /\ irq_flags' = {}
    /\ op_mode' = "rx_continuous"
    /\ RxSet("publish", rx_loc)
    /\ UNCHANGED <<authVars, dbVars, clock, apiVars, wkVars, fifo, rssi_reg, snr_reg,
                   radio_tx, published, nframes>>

\* mutant: the metrics and the timestamp are read when the wrapper is built
RxPublishRereads ==
    /\ rx_pc = "publish"
    /\ \E rc \in {"ok", "error", "raise"} :
         /\ published' = Append(published,
               [gateway |-> GATEWAY_ID, rssi |-> RssiDbm(rssi_reg),
                snr |-> SnrDb(snr_reg), received_at |-> clock,
                payload |-> rx_loc.node_json, rc |-> rc])
         /\ IF rc = "raise" THEN RxSet("exited", NoFrame)
            ELSE RxSet("poll", NoFrame)
    /\ UNCHANGED <<authVars, dbVars, clock, apiVars, wkVars, op_mode, irq_flags, fifo,
                   rssi_reg, snr_reg, radio_tx, nframes>>

\* wrapper = {...}; mqttc.publish(MQTT_TOPIC, json.dumps(wrapper)).  The
\* result publish returns is not looked at.  An exception publish raises is
\* caught nowhere (the loop's try has except KeyboardInterrupt only): the
\* finally block runs and the program ends
RxPublish ==
    /\ rx_pc = "publish"
    /\ \E rc \in {"ok", "error", "raise"} :
         /\ published' = Append(published,
               [gateway |-> GATEWAY_ID, rssi |-> rx_loc.r, snr |-> rx_loc.s,
                received_at |-> rx_loc.ts, payload |-> rx_loc.node_json, rc |-> rc])
         /\ IF rc = "raise" THEN RxSet("exited", NoFrame)
            ELSE RxSet("poll", NoFrame)
    /\ UNCHANGED <<authVars, dbVars, clock, apiVars, wkVars, op_mode, irq_flags, fifo,
                   rssi_reg, snr_reg, radio_tx, nframes>>

InitGateway ==
    /\ fire_incidents = <<>>
    /\ sensor_readings = <<>>
    /\ gateways = <<>>
    /\ broadcasts = <<>>
    /\ clock = 1
    /\ api_pc = [c \in Conns |-> "idle"]
    /\ api_req = [c \in Conns |-> NoReq]
    /\ api_resp = [c \in Conns |-> 0]
    /\ nreq = 0
    /\ wk_pc = [w \in Workers |-> "idle"]
    /\ wk_loc = [w \in Workers |-> NoMsg]
    /\ posts = <<>>
    /\ nmsg = 0
    /\ wk_conn = [w \in Workers |-> 0]
    /\ rx_pc = "off"
    /\ rx_loc = NoFrame
    /\ op_mode = "sleep"
    /\ irq_flags = {}
    /\ fifo = <<>>
    /\ rssi_reg = 0
    /\ snr_reg = 0
    /\ radio_tx = <<>>
    /\ published = <<>>
    /\ nframes = 0
    /\ users = InitUsers
    /\ invite_codes = InitInviteCodes

NextGateway ==
    \/ RadioInitStandby
    \/ RadioInitRx
    \/ \E fr \in Frames : nframes < MaxFrames /\ FrameArrives(fr)
    \/ RxPoll
    \/ RxClear
    \/ RxReadFifo
    \/ RxCapture
    \/ SendAckStandby
    \/ SendAckTx
    \/ RadioTxDone
    \/ SendAckWait
    \/ SendAckRestore
    \/ RxPublish

SpecGateway == InitGateway /\ [][NextGateway]_vars

\* the program keeps executing: each statement of send_ack and the publish
\* after it is eventually run.  Nothing is assumed of the modem (it need not
\* ever raise TxDone) nor of the frames on the air
SpecGatewayFair ==
    /\ SpecGateway
    /\ WF_vars(SendAckStandby)
    /\ WF_vars(SendAckTx)
    /\ WF_vars(SendAckWait)
    /\ WF_vars(SendAckRestore)
    /\ WF_vars(RxPublish)

-----------------------------------------------------------------------------
(* Properties of the incident state machine *)

\* the rows of a node, and its rows with status active, in the committed table
RowsOf(n) == {i \in DOMAIN fire_incidents : fire_incidents[i].node_id = n}
ActiveRowsOf(n) == {i \in RowsOf(n) : fire_incidents[i].status = "active"}
ResolvedRowsOf(n) == {i \in RowsOf(n) : fire_incidents[i].status = "resolved"}

\* C1: after any sequence of readings (any labels, any order) applied one at
\* a time through upsert_fire_incident, every node has at most one row with
\* status active.
C1_AtMostOneActive == \A n \in Nodes : Cardinality(ActiveRowsOf(n)) <= 1

\* a node whose incident was resolved and that has a new active one
C1_Witness ==
    \E n \in Nodes : Cardinality(ActiveRowsOf(n)) = 1 /\ ResolvedRowsOf(n) # {}

\* C2: also when the steps of two fire-labelled readings for the same node
\* interleave on separate connections, the node ends (every handler returned)
\* with at most one active row.
C2_ConcurrentAtMostOneActive ==
    AllIdle => \A n \in Nodes : Cardinality(ActiveRowsOf(n)) <= 1

\* the readings processed for node N1, oldest first
IsN1(r) == r.node_id = "N1"
ReadingsN1 == SelectSeq(sensor_readings, IsN1)
LabelsN1 == [i \in DOMAIN ReadingsN1 |-> ReadingsN1[i].ai_prediction]

\* no manual resolution of a row of N1 has been carried out
NoManualResolveN1 ==
    \A k \in DOMAIN broadcasts :
        "action" \in DOMAIN broadcasts[k] =>
            fire_incidents[broadcasts[k].incident_id].node_id # "N1"

\* C6 (as amended): from no incident for N1, readings fire, fire, normal give
\* exactly one row: created active by the 1st (started_at = last_updated_at =
\* its timestamp, no resolved_at), updated in place by the 2nd (still the one
\* row, started_at kept, last_updated_at = the 2nd reading's timestamp, which
\* is never earlier), and resolved by the 3rd (status resolved, resolved_at =
\* the 3rd reading's timestamp, the other fields kept).
C6_TransitionTable ==
    NoManualResolveN1 =>
      /\ LabelsN1 = <<"fire">> =>
           \E i \in RowsOf("N1") :
              /\ RowsOf("N1") = {i}
              /\ fire_incidents[i].id = i
              /\ fire_incidents[i].status = "active"
              /\ fire_incidents[i].started_at = ReadingsN1[1].timestamp
              /\ fire_incidents[i].last_updated_at = ReadingsN1[1].timestamp
              /\ fire_incidents[i].resolved_at = NULL
      /\ LabelsN1 = <<"fire", "fire">> =>
           \E i \in RowsOf("N1") :
              /\ RowsOf("N1") = {i}
              /\ fire_incidents[i].id = i
              /\ fire_incidents[i].status = "active"
              /\ fire_incidents[i].started_at = ReadingsN1[1].timestamp
              /\ fire_incidents[i].last_updated_at = ReadingsN1[2].timestamp
              /\ fire_incidents[i].last_updated_at >= fire_incidents[i].started_at
              /\ fire_incidents[i].resolved_at = NULL
      /\ LabelsN1 = <<"fire", "fire", "normal">> =>
           \E i \in RowsOf("N1") :
              /\ RowsOf("N1") = {i}
              /\ fire_incidents[i].id = i
              /\ fire_incidents[i].status = "resolved"
              /\ fire_incidents[i].started_at = ReadingsN1[1].timestamp
              /\ fire_incidents[i].last_updated_at = ReadingsN1[2].timestamp
              /\ fire_incidents[i].resolved_at = ReadingsN1[3].timestamp
              /\ fire_incidents[i].resolved_at # NULL

\* fire, fire, normal processed for N1, the second fire a second later
C6_Witness ==
    /\ NoManualResolveN1
    /\ LabelsN1 = <<"fire", "fire", "normal">>
    /\ ReadingsN1[2].timestamp > ReadingsN1[1].timestamp
    /\ \E i \in RowsOf("N1") :
          RowsOf("N1") = {i} /\ fire_incidents[i].status = "resolved"

\* C6 as stated: the 2nd fire reading advances last_updated_at (the row's
\* last_updated_at is later than the value the 1st reading gave it).
C6_LastUpdatedAdvanced ==
    (NoManualResolveN1 /\ LabelsN1 = <<"fire", "fire">>) =>
        \A i \in RowsOf("N1") :
            fire_incidents[i].last_updated_at > fire_incidents[i].started_at

\* a fire-labelled reading is being committed by connection c for a node
\* that has resolved rows and no active one
FireAfterResolved(c) ==
    /\ api_pc[c] = "sim_write"
    /\ api_pc'[c] = "idle"
    /\ api_req[c].kind = "fire"
    /\ ActiveRowsOf(api_req[c].node_id) = {}
    /\ ResolvedRowsOf(api_req[c].node_id) # {}

\* C7: resolved is terminal per row.  No step changes any field of a row
\* whose status is resolved; fire evidence for a node whose incidents are all
\* resolved adds a new active row under a new id.
C7_ResolvedIsTerminal ==
    [][ /\ \A i \in DOMAIN fire_incidents :
              fire_incidents[i].status = "resolved" =>
                  /\ i \in DOMAIN fire_incidents'
                  /\ fire_incidents'[i] = fire_incidents[i]
        /\ FireAfterResolved(1) =>
              /\ Len(fire_incidents') = Len(fire_incidents) + 1
              /\ LET new == fire_incidents'[Len(fire_incidents')]
                 IN  /\ new.status = "active"
                     /\ new.node_id = api_req[1].node_id
                     /\ \A i \in DOMAIN fire_incidents :
                           fire_incidents[i].id # new.id
      ]_vars

\* a node with a resolved row and a later, active row
C7_Witness ==
    \E n \in Nodes : \E i \in ResolvedRowsOf(n), j \in ActiveRowsOf(n) :
        /\ i < j
        /\ fire_incidents[j].ai_prediction = "fire"

\* connection c handles a manual resolve of a row that is already resolved
ResolveOnResolved(c) ==
    \E id \in IncidentIds, notes \in NotesIn :
        /\ id \in DOMAIN fire_incidents
        /\ fire_incidents[id].status = "resolved"
        /\ ResolveBegin(c, id, notes)

\* C8: a manual resolve of an already resolved incident fails (HTTP 400) and
\* changes nothing: the table is as before (resolved_at, notes, status), no
\* incident_update is broadcast and the handler has returned.
C8_ResolveGuard ==
    [][ ResolveOnResolved(1) =>
          /\ api_resp'[1] = 400
          /\ api_pc'[1] = "idle"
          /\ fire_incidents' = fire_incidents
          /\ broadcasts' = broadcasts
      ]_vars

\* a manual resolve was refused with 400 and the resolved row is in the table
C8_Witness ==
    /\ api_resp[1] = 400
    /\ \E i \in DOMAIN fire_incidents :
          fire_incidents[i].status = "resolved" /\ fire_incidents[i].resolved_at # NULL

\* C9: in every interleaving the manual path only moves a row from active to
\* resolved: when resolve_incident's UPDATE runs, the row is still active (it
\* never rewrites resolved_at or notes of a row resolved in the meantime).
C9_ManualOnlyActiveToResolved ==
    [][ \A c \in Conns :
          (api_pc[c] = "resolve_write" /\ api_pc'[c] = "idle") =>
              \/ fire_incidents[api_req[c].incident_id].status = "active"
              \/ /\ fire_incidents'[api_req[c].incident_id].resolved_at
                      = fire_incidents[api_req[c].incident_id].resolved_at
                 /\ fire_incidents'[api_req[c].incident_id].notes
                      = fire_incidents[api_req[c].incident_id].notes
      ]_vars

\* C11: every incident transition emits exactly one incident_update: a
\* request that creates, updates or resolves a row broadcasts one message, of
\* type incident_update (a resolving reading too, not only a new_reading).
C11_TransitionEmitsIncidentUpdate ==
    [][ (api_pc[1] = "sim_write" /\ fire_incidents' # fire_incidents) =>
          /\ Len(broadcasts') = Len(broadcasts) + 1
          /\ broadcasts'[Len(broadcasts')].type = "incident_update"
      ]_vars

\* the label of a reading in lower case, the timestamp the state machine
\* stamps for it in the step being taken
LabelOf(r) == Lower(Get(r, "ai_prediction", NoneStr))
StampOf(r) == IF "local_timestamp" \in DOMAIN r THEN r.local_timestamp ELSE clock'

\* the rows a step leaves as they were
RowsKept(ids) == \A j \in ids : fire_incidents'[j] = fire_incidents[j]

\* C28: a reading whose label lower-cases to fire, for a node with no active
\* incident, adds exactly one row: that node's, active, started_at equal to
\* last_updated_at, no resolved_at, a new id; no step ever changes the
\* started_at (or the id or the node) of a row.
C28_FireCreatesRow ==
    [][ /\ \A r \in Readings :
             (LabelOf(r) = "fire" /\ ActiveRowsOf(r.node_id) = {} /\ UpsertCall(1, r)) =>
                 /\ Len(fire_incidents') = Len(fire_incidents) + 1
                 /\ RowsKept(DOMAIN fire_incidents)
                 /\ LET new == fire_incidents'[Len(fire_incidents')]
                    IN  /\ new.node_id = r.node_id
                        /\ new.status = "active"
                        /\ new.started_at = StampOf(r)
                        /\ new.last_updated_at = new.started_at
                        /\ new.resolved_at = NULL
                        /\ \A j \in DOMAIN fire_incidents : fire_incidents[j].id # new.id
        /\ \A j \in DOMAIN fire_incidents :
              /\ j \in DOMAIN fire_incidents'
              /\ fire_incidents'[j].started_at = fire_incidents[j].started_at
              /\ fire_incidents'[j].id = fire_incidents[j].id
              /\ fire_incidents'[j].node_id = fire_incidents[j].node_id
      ]_vars

\* the reading labelled FIRE (no confidence, no sensor fields, timestamp 1)
\* was the first one and made the first row
C28_Witness ==
    /\ nreq = 1
    /\ Len(fire_incidents) = 1
    /\ fire_incidents[1].ai_prediction = "fire"
    /\ fire_incidents[1].status = "active"
    /\ fire_incidents[1].confidence = 0
    /\ fire_incidents[1].temperature = NULL
    /\ fire_incidents[1].started_at = fire_incidents[1].last_updated_at

\* C29: a reading labelled fire or false, for a node with an active incident,
\* updates that row in place: no row is added, the other rows are kept, the
\* row's id, node_id, gateway_id, status, started_at, resolved_at and notes
\* are unchanged, and its label, confidence, sensor metrics, position and
\* last_updated_at are the reading's.
C29_UpdateInPlace ==
    [][ \A r \in Readings :
          (LabelOf(r) \in {"fire", "false"} /\ ActiveRowsOf(r.node_id) # {}
              /\ UpsertCall(1, r)) =>
            /\ Len(fire_incidents') = Len(fire_incidents)
            /\ \E i \in ActiveRowsOf(r.node_id) :
                 /\ RowsKept(DOMAIN fire_incidents \ {i})
                 /\ fire_incidents'[i] =
                      [fire_incidents[i] EXCEPT
                         !.ai_prediction   = LabelOf(r),
                         !.confidence      = Get(r, "confidence", 0),
                         !.temperature     = Get(r, "temperature", NULL),
                         !.humidity        = Get(r, "humidity", NULL),
                         !.flame           = Get(r, "flame", NULL),
                         !.smoke           = Get(r, "smoke", NULL),
                         !.latitude        = Get(r, "latitude", NULL),
                         !.longitude       = Get(r, "longitude", NULL),
                         !.last_updated_at = StampOf(r)]
      ]_vars

\* a row opened at second 1 was updated by a false-labelled reading at
\* second 2 and is still the only row, still active
C29_Witness ==
    /\ nreq = 2
    /\ Len(fire_incidents) = 1
    /\ fire_incidents[1].status = "active"
    /\ fire_incidents[1].ai_prediction = "false"
    /\ fire_incidents[1].started_at = 1
    /\ fire_incidents[1].last_updated_at = 2

\* C30: a reading with a label outside {fire, false} (or without a label),
\* for a node with an active incident, sets that row's status to resolved and
\* its resolved_at to the reading's timestamp; every other field of the row
\* and every other row is kept.
C30_ResolveKeepsFields ==
    [][ \A r \in Readings :
          (LabelOf(r) \notin {"fire", "false"} /\ ActiveRowsOf(r.node_id) # {}
              /\ UpsertCall(1, r)) =>
            /\ Len(fire_incidents') = Len(fire_incidents)
            /\ RowsKept(DOMAIN fire_incidents \ ActiveRowsOf(r.node_id))
            /\ \A i \in ActiveRowsOf(r.node_id) :
                 /\ fire_incidents'[i] =
                      [fire_incidents[i] EXCEPT
                         !.status = "resolved", !.resolved_at = StampOf(r)]
                 /\ fire_incidents'[i].resolved_at # NULL
      ]_vars

\* a row opened by a fire reading was resolved by a later reading (no manual
\* resolve took place): its label and metrics are still the fire reading's
C30_Witness ==
    /\ broadcasts = <<>>
    /\ Len(fire_incidents) = 1
    /\ fire_incidents[1].status = "resolved"
    /\ fire_incidents[1].ai_prediction = "fire"
    /\ fire_incidents[1].smoke = 700
    /\ fire_incidents[1].resolved_at > fire_incidents[1].last_updated_at

\* C31: a reading with a label outside {fire, false}, for a node with no
\* active incident, leaves the incident table as it was: no row is added and
\* no row of any node is modified.
C31_NoActiveNoOp ==
    [][ \A r \in Readings :
          (LabelOf(r) \notin {"fire", "false"} /\ ActiveRowsOf(r.node_id) = {}
              /\ UpsertCall(1, r)) =>
            fire_incidents' = fire_incidents
      ]_vars

\* the incident opened and resolved at second 1 is still the only row, as it
\* was resolved, after a third reading processed at second 2
C31_Witness ==
    /\ nreq = 3
    /\ clock = 2
    /\ broadcasts = <<>>
    /\ api_pc[1] = "idle"
    /\ Len(fire_incidents) = 1
    /\ fire_incidents[1].status = "resolved"
    /\ fire_incidents[1].confidence = 80
    /\ fire_incidents[1].started_at = 1
    /\ fire_incidents[1].last_updated_at = 1
    /\ fire_incidents[1].resolved_at = 1

\* C32: processing a reading of node N changes no row of another node and no
\* resolved row of N, and a row it adds is a row of N.
C32_ScopedToNodeAndActive ==
    [][ \A r \in Readings :
          UpsertCall(1, r) =>
            /\ \A i \in DOMAIN fire_incidents :
                 (fire_incidents[i].node_id # r.node_id
                     \/ fire_incidents[i].status = "resolved") =>
                   /\ i \in DOMAIN fire_incidents'
                   /\ fire_incidents'[i] = fire_incidents[i]
            /\ \A i \in DOMAIN fire_incidents' \ DOMAIN fire_incidents :
                 fire_incidents'[i].node_id = r.node_id
      ]_vars

\* N1's incident was resolved by a reading of N1 while N2's, opened in
\* between, stays active
C32_Witness ==
    /\ nreq = 3
    /\ broadcasts = <<>>
    /\ api_pc[1] = "idle"
    /\ Len(fire_incidents) = 2
    /\ fire_incidents[1].node_id = "N1"
    /\ fire_incidents[1].status = "resolved"
    /\ fire_incidents[2].node_id = "N2"
    /\ fire_incidents[2].status = "active"

\* C33: in every state a row has a resolved_at exactly when its status is
\* resolved.
C33_ResolvedAtIffResolved ==
    \A i \in DOMAIN fire_incidents :
        (fire_incidents[i].resolved_at # NULL) <=> (fire_incidents[i].status = "resolved")

\* one row resolved by hand (notes written) next to one still active
C33_Witness ==
    /\ \E i \in DOMAIN fire_incidents :
          /\ fire_incidents[i].status = "resolved"
          /\ fire_incidents[i].notes = "checked"
          /\ fire_incidents[i].resolved_at # NULL
    /\ \E i \in DOMAIN fire_incidents :
          /\ fire_incidents[i].status = "active"
          /\ fire_incidents[i].resolved_at = NULL

\* C34: a reading labelled false, for a node with no active incident, adds
\* one active row with ai_prediction false, as a fire reading does.
C34_FalseCreatesRow ==
    [][ \A r \in Readings :
          (LabelOf(r) = "false" /\ ActiveRowsOf(r.node_id) = {} /\ UpsertCall(1, r)) =>
            /\ Len(fire_incidents') = Len(fire_incidents) + 1
            /\ RowsKept(DOMAIN fire_incidents)
            /\ LET new == fire_incidents'[Len(fire_incidents')]
               IN  /\ new.node_id = r.node_id
                   /\ new.ai_prediction = "false"
                   /\ new.status = "active"
                   /\ new.started_at = StampOf(r)
                   /\ new.last_updated_at = new.started_at
                   /\ new.resolved_at = NULL
      ]_vars

\* the first reading was labelled false and opened the first incident
C34_Witness ==
    /\ nreq = 1
    /\ Len(fire_incidents) = 1
    /\ fire_incidents[1].ai_prediction = "false"
    /\ fire_incidents[1].status = "active"
    /\ fire_incidents[1].confidence = 40
    /\ fire_incidents[1].resolved_at = NULL

\* C36: a request of the non-admin user of organization 1 creates, updates
\* or resolves only incident rows whose gateway belongs to organization 1.
C36_MemberOwnOrgOnly ==
    [][ \A i \in DOMAIN fire_incidents' :
          (api_pc[2] # "idle"
              /\ (i \notin DOMAIN fire_incidents \/ fire_incidents'[i] # fire_incidents[i]))
            => GatewayOrgs(gateways, fire_incidents'[i].gateway_id) = {Member.org_id}
      ]_vars

\* C37: the uses counter of an invite code with max_uses > 0 never exceeds
\* max_uses, and a signup that presents a code whose uses has reached
\* max_uses is rejected and creates no user.
C37_UsesWithinMax ==
    /\ [](\A code \in DOMAIN invite_codes :
            invite_codes[code].max_uses > 0 =>
                invite_codes[code].uses <= invite_codes[code].max_uses)
    /\ [][ \A c \in Conns, body \in SignupBodies :
             (/\ body.invite_code \in DOMAIN invite_codes
              /\ invite_codes[body.invite_code].max_uses > 0
              /\ invite_codes[body.invite_code].uses >= invite_codes[body.invite_code].max_uses
              /\ SignupBegin(c, body)) =>
                 /\ api_resp'[c] = 400
                 /\ api_pc'[c] = "idle"
                 /\ users' = users
       ]_vars

\* C38: a signup rejected because the username or e-mail is taken leaves the
\* users table and the invite codes' uses counters as they were before the
\* request (api_req holds the request from its first step on).
C38_TakenNameChangesNothing ==
    [][ \A c \in Conns :
          (api_pc[c] = "signup_use" /\ UserTaken(users, api_req[c].body) /\ SignupUse(c)) =>
             /\ api_resp'[c] = 400
             /\ users' = users
             /\ invite_codes' = invite_codes
      ]_vars

-----------------------------------------------------------------------------
(* Properties of the classification worker *)

\* the worker is between two messages
WorkerIdle == wk_pc[1] = "idle"

\* C3: once the worker has persisted a classified reading, the transition
\* table has been applied for its node: after a fire-labelled reading the node
\* has an active incident row carrying that reading's timestamp, after a
\* label that is no fire evidence (neither fire nor false) the node has no
\* active row.
C3_WorkerFeedsStateMachine ==
    (WorkerIdle /\ sensor_readings # <<>>) =>
        LET last == sensor_readings[Len(sensor_readings)]
        IN  IF Lower(last.ai_prediction) = "fire"
            THEN \E i \in ActiveRowsOf(last.node_id) :
                    fire_incidents[i].last_updated_at = last.local_timestamp
            ELSE \/ Lower(last.ai_prediction) = "false"
                 \/ ActiveRowsOf(last.node_id) = {}

\* C10: every incident_update the worker posts belongs to a transition of a
\* row of its node made for that reading: the row was created, updated in
\* place or resolved at the reading's timestamp.
C10_IncidentUpdateOnlyOnTransition ==
    \A k \in DOMAIN posts :
        Get(posts[k].body, "type", NoneStr) = "incident_update" =>
            \E i \in RowsOf(posts[k].body.node_id) :
                posts[k].body.timestamp \in
                    {fire_incidents[i].started_at,
                     fire_incidents[i].last_updated_at,
                     fire_incidents[i].resolved_at}

\* confidence values, in percent, on both sides of the two thresholds
Confidences == {0, 40, 49, 50, 60, 69, 70, 95, 100}

\* C12: confidence is display-only: for the reading the worker is deciding
\* on, the decision whether to post an incident_update is the same whatever
\* the confidence, and a fire label is acted on at every confidence.
C12_ConfidenceDisplayOnly ==
    wk_pc[1] = "notify_incident" =>
        \A c \in Confidences :
            /\ ShouldBroadcastIncident(wk_loc[1].final_label, c)
                 = ShouldBroadcastIncident(wk_loc[1].final_label, wk_loc[1].confidence)
            /\ LowerStrip(wk_loc[1].final_label) = "fire"
                 => ShouldBroadcastIncident(wk_loc[1].final_label, c)

\* the registry rows of a gateway id, the persisted readings of a gateway id
GatewayRows(g) == {i \in DOMAIN gateways : gateways[i].gateway_id = g}
ReadingsVia(g) == {k \in DOMAIN sensor_readings : sensor_readings[k].gateway_id = g}

\* C13: envelopes processed one after the other leave at most one registry
\* row per gateway id; a row made by auto-provisioning has no organization.
C13_AutoProvisionOnce ==
    \A g \in {"GW1", "GW9"} :
        /\ Cardinality(GatewayRows(g)) <= 1
        /\ \A i \in GatewayRows(g) : g # "GW1" => gateways[i].org_id = NULL

\* two readings from the unregistered gateway GW9 are persisted and the
\* registry holds one row for GW9
C13_Witness ==
    /\ Cardinality(ReadingsVia("GW9")) = 2
    /\ Cardinality(GatewayRows("GW9")) = 1
    /\ WorkerIdle

\* C14: every persisted sensor reading references a gateway that is in the
\* registry (rows are never removed from the registry here, so a gateway
\* present at the insert is present afterwards).
C14_ReadingReferencesGateway ==
    \A k \in DOMAIN sensor_readings :
        GatewayRows(sensor_readings[k].gateway_id) # {}

\* envelopes without a gateway id, with an empty node, without a node
EnvelopesWithoutIds == {EnvNoGateway, EnvEmptyNode, EnvNoNode}

\* C15: an envelope whose gateway id is missing, or whose payload.node is
\* missing or empty, is dropped by the worker that receives it: the handler
\* has returned, and no gateway row, no sensor reading and no notification
\* were written.
C15_EnvelopeWithoutIdsDropped ==
    [][ \A msg \in EnvelopesWithoutIds :
          \A w \in Workers :
            (WkReceive(w, msg) \/ LgReceive(w, msg)) =>
                /\ wk_pc'[w] = "idle"
                /\ gateways' = gateways
                /\ sensor_readings' = sensor_readings
                /\ posts' = posts
      ]_vars

\* envelopes that pass the worker's validation
ValidEnvelopes == {EnvFire, EnvNormal, EnvWeakFire, EnvSparse}

\* the classifier's answer for a persisted row
ClassifiedAs(row) ==
    Classify(<<row.smoke, row.temperature, row.flame, row.humidity>>)

\* C16: a valid envelope either is classified and goes on with the
\* classifier's label and confidence, or (the classifier call failed) is
\* dropped inside the handler: the handler has returned and is ready for the
\* next message, no reading, gateway row or notification was written.  No
\* reading is ever persisted without the classifier's answer.
C16_ClassifierFailureDropsMessage ==
    /\ [][ \A msg \in ValidEnvelopes :
             WkReceive(1, msg) =>
                \/ /\ wk_pc'[1] = "connect"
                   /\ wk_loc'[1].final_label = Classify(Features(msg.data.payload)).label
                   /\ wk_loc'[1].confidence = Classify(Features(msg.data.payload)).confidence
                \/ /\ wk_pc'[1] = "idle"
                   /\ sensor_readings' = sensor_readings
                   /\ gateways' = gateways
                   /\ posts' = posts
         ]_vars
    /\ [](\A k \in DOMAIN sensor_readings :
             /\ sensor_readings[k].ai_prediction = ClassifiedAs(sensor_readings[k]).label
             /\ sensor_readings[k].confidence = ClassifiedAs(sensor_readings[k]).confidence)

\* two messages were handled: one left no trace, the other was persisted
\* and notified
C16_Witness ==
    /\ WorkerIdle
    /\ nmsg = 2
    /\ Len(sensor_readings) = 1
    /\ sensor_readings[1].ai_prediction = "fire"
    /\ Len(posts) = 2

\* C17: when the insert of the sensor reading fails, every write made for the
\* envelope is rolled back, the auto-provisioned gateway row included: once
\* the handler has returned, a gateway row made by auto-provisioning is in
\* the registry only if a reading of its envelope was persisted.
C17_FailedWriteRolledBack ==
    WorkerIdle =>
        \A i \in DOMAIN gateways :
            gateways[i].org_id = NULL => ReadingsVia(gateways[i].gateway_id) # {}

\* the kind of a post to /notify-new-data
IsIncidentUpdate(p) == Get(p.body, "type", NoneStr) = "incident_update"
IsNewReading(p) == "type" \notin DOMAIN p.body

\* C18: a notification attempt, delivered or not, leaves the committed tables
\* as they are and is made once; after the incident_update attempt the
\* handler goes on to the new_reading attempt, after the new_reading attempt
\* it returns; every incident_update attempt is followed by the new_reading
\* attempt of the same envelope.
C18_NotifyFailureHarmless ==
    /\ [][ /\ posts' # posts =>
                /\ Len(posts') = Len(posts) + 1
                /\ SubSeq(posts', 1, Len(posts)) = posts
                /\ sensor_readings' = sensor_readings
                /\ gateways' = gateways
           /\ (wk_pc[1] = "notify_incident" /\ wk_pc'[1] # wk_pc[1])
                => wk_pc'[1] = "notify_reading"
           /\ (wk_pc[1] = "notify_reading" /\ wk_pc'[1] # wk_pc[1])
                => (wk_pc'[1] = "idle" /\ posts' # posts)
         ]_vars
    /\ [](WorkerIdle =>
            \A k \in DOMAIN posts :
                IsIncidentUpdate(posts[k]) =>
                    /\ k + 1 \in DOMAIN posts
                    /\ IsNewReading(posts[k + 1])
                    /\ posts[k + 1].body.node_id = posts[k].body.node_id
                    /\ posts[k + 1].body.timestamp = posts[k].body.timestamp)

\* both posts of a persisted fire reading failed; the reading is stored and
\* the handler has returned
C18_Witness ==
    /\ WorkerIdle
    /\ Len(sensor_readings) = 1
    /\ Len(posts) = 2
    /\ IsIncidentUpdate(posts[1]) /\ ~posts[1].delivered
    /\ IsNewReading(posts[2]) /\ ~posts[2].delivered

\* the posts of kind new_reading, oldest first
NewReadingPosts == SelectSeq(posts, IsNewReading)

\* C19: once the handler has returned, there is exactly one new_reading
\* attempt per persisted reading, in the same order, for its node and
\* timestamp and with its label, whatever the label and confidence and
\* whether or not an incident_update was posted.
C19_NewReadingOncePerEnvelope ==
    WorkerIdle =>
        /\ Len(NewReadingPosts) = Len(sensor_readings)
        /\ \A k \in DOMAIN sensor_readings :
              /\ NewReadingPosts[k].body.node_id = sensor_readings[k].node_id
              /\ NewReadingPosts[k].body.timestamp = sensor_readings[k].timestamp
              /\ NewReadingPosts[k].body.ai_prediction = sensor_readings[k].ai_prediction

\* a fire reading with an incident_update and a low-confidence reading
\* without one, each with its new_reading
C19_Witness ==
    /\ WorkerIdle
    /\ Len(sensor_readings) = 2
    /\ Len(posts) = 3
    /\ IsIncidentUpdate(posts[1])
    /\ IsNewReading(posts[2])
    /\ IsNewReading(posts[3])
    /\ sensor_readings[2].confidence < 50

\* C22: sensor_readings is append-only, one row per processed envelope: a
\* step leaves the table as it is or appends one row, and it appends only in
\* the insert step of a handler; a handler that returns from its insert step
\* without appending (the write failed) and a message dropped earlier add
\* nothing, so there are never more rows than messages.
C22_ReadingsAppendOnly ==
    /\ [][ \/ sensor_readings' = sensor_readings
           \/ /\ Len(sensor_readings') = Len(sensor_readings) + 1
              /\ SubSeq(sensor_readings', 1, Len(sensor_readings)) = sensor_readings
              /\ \E w \in Workers :
                    /\ wk_pc[w] \in {"insert_reading", "lg_insert"}
                    /\ wk_pc'[w] # wk_pc[w]
                    /\ sensor_readings'[Len(sensor_readings')].node_id = wk_loc[w].node
                    /\ sensor_readings'[Len(sensor_readings')].timestamp
                          = wk_loc[w].ph_timestamp
         ]_vars
    /\ [](Len(sensor_readings) <= nmsg)

\* of two messages one was dropped or failed and one was persisted
C22_Witness ==
    /\ WorkerIdle
    /\ nmsg = 2
    /\ Len(sensor_readings) = 1
    /\ sensor_readings[1].node_id = "N2"

\* the message the worker is handling is envelope env
Handling(env) ==
    /\ wk_pc[1] # "idle"
    /\ wk_loc[1].node = env.data.payload.node
    /\ wk_loc[1].ph_timestamp = env.data.received_at

\* C23: the classifier is given [smoke, temperature, flame, humidity] in this
\* order, from the payload fields smoke, temp, flame, hum: the label and
\* confidence the handler goes on with are the classifier's answer for that
\* vector; {smoke 920, temp 52.3, flame 1, hum 25} gives [920, 52.3, 1, 25];
\* a missing flame or smoke is 0, a missing temp or hum is passed as absent.
C23_FeatureOrder ==
    /\ wk_pc[1] # "idle" =>
          Classify(<<wk_loc[1].smoke, wk_loc[1].temp, wk_loc[1].flame, wk_loc[1].hum>>)
             = [label |-> wk_loc[1].final_label, confidence |-> wk_loc[1].confidence]
    /\ Handling(EnvFire) =>
          /\ Features(EnvFire.data.payload) = <<920, 523, 1, 25>>
          /\ wk_loc[1].final_label = Classify(<<920, 523, 1, 25>>).label
    /\ Handling(EnvSparse) =>
          /\ Features(EnvSparse.data.payload) = <<0, NULL, 0, NULL>>
          /\ <<wk_loc[1].smoke, wk_loc[1].temp, wk_loc[1].flame, wk_loc[1].hum>>
                = <<0, NULL, 0, NULL>>

\* the handler goes on with the envelope {smoke 920, temp 52.3, flame 1,
\* hum 25}, classified fire
C23_Witness ==
    /\ Handling(EnvFire)
    /\ wk_pc[1] = "connect"
    /\ wk_loc[1].final_label = "fire"
    /\ wk_loc[1].confidence = 95

\* C24: whatever went wrong with a message, once its handler has returned
\* the worker holds no database connection (the one it opened was closed)
\* and is ready for the next message.
C24_FailuresAbsorbed ==
    \A w \in Workers : wk_pc[w] = "idle" => wk_conn[w] = 0

\* C35: the gateway registry never holds two rows with the same gateway_id,
\* whatever the interleaving of the workers' auto-provisioning and the
\* admin registration.
C35_OneRowPerGatewayId ==
    \A i \in DOMAIN gateways, j \in DOMAIN gateways :
        gateways[i].gateway_id = gateways[j].gateway_id => i = j

-----------------------------------------------------------------------------
(* Properties of the radio gateway *)

\* the packets that are JSON objects with a non-empty node
GoodPackets == {PktFull, PktNodeOnly}

\* the ACK message of the frame the loop is working on
AckOfFrame == <<"ACK", rx_loc.node>>

\* C4: when the publish call for a frame is made, the ACK for that frame has
\* been started (it is the last transmission, one per published frame), it
\* has completed by TX-done or by the deadline, and the radio is back in
\* rx_continuous; no frame is published before its ACK.
C4_AckBeforePublish ==
    [][ published' # published =>
          /\ Len(radio_tx) = Len(published) + 1
          /\ radio_tx[Len(radio_tx)] = AckOfFrame
          /\ published'[Len(published')].payload["node"] = rx_loc.node
          /\ rx_loc.ack \in {"tx_done", "timeout"}
          /\ op_mode = "rx_continuous"
      ]_vars

\* both valid frames were acknowledged and published, N1 first
C4_Witness ==
    /\ Len(published) = 2
    /\ radio_tx = << <<"ACK", "N1">>, <<"ACK", "N2">> >>
    /\ published[1].payload = JsonLoads(PktFull)
    /\ rx_pc = "poll"

\* the loop step drops the frame: straight back to the poll, nothing
\* transmitted, nothing published
FrameDropped ==
    /\ rx_pc' = "poll"
    /\ radio_tx' = radio_tx
    /\ published' = published

\* C5: a frame polled with the CRC flag (with or without RX-done), or whose
\* packet is not a JSON object with a non-empty node, is dropped: the loop
\* goes back to polling with no ACK and no publish; every ACK and every
\* publish is for a frame polled with RX-done, without CRC, with such a packet.
C5_InvalidFrameDropped ==
    [][ /\ (rx_pc = "clear" /\ rx_pc' # rx_pc /\ "CRC" \in rx_loc.irq)
              => FrameDropped
        /\ (rx_pc = "read_fifo" /\ rx_pc' # rx_pc /\ fifo \notin GoodPackets)
              => FrameDropped
        /\ (radio_tx' # radio_tx \/ published' # published) =>
              /\ "RX_DONE" \in rx_loc.irq
              /\ "CRC" \notin rx_loc.irq
              /\ rx_loc.raw \in GoodPackets
      ]_vars

\* the frame with RX-done and CRC set and a well-formed packet was polled and
\* dropped: nothing was sent, nothing published
C5_Witness ==
    /\ rx_pc = "poll"
    /\ rx_loc = NoFrame
    /\ irq_flags = {}
    /\ nframes >= 1
    /\ fifo = PktFull
    /\ rssi_reg = 60
    /\ radio_tx = <<>>
    /\ published = <<>>

\* C20: a failure of the broker publish for a frame, reported or raised, is
\* not fatal and is not retried: after every publish call the loop is back at
\* the poll, with one more call made, ready for the next frame.
C20_PublishFailureNonFatal ==
    [][ published' # published =>
          /\ rx_pc' = "poll"
          /\ Len(published') = Len(published) + 1
      ]_vars

\* C21: a frame is acted on once.  The flags a poll read are cleared by the
\* write-back before the frame is processed; an ACK is started only when the
\* frame before it has been published, so each loop iteration makes one ACK
\* and at most one publish; there are never more ACKs than frames received,
\* nor more publishes than ACKs.
C21_FrameActedOnOnce ==
    /\ [][ /\ (rx_pc = "clear" /\ rx_pc' # rx_pc) =>
                irq_flags' \cap rx_loc.irq = {}
           /\ radio_tx' # radio_tx =>
                /\ Len(radio_tx') = Len(radio_tx) + 1
                /\ Len(published) = Len(radio_tx)
           /\ published' # published =>
                /\ Len(published') = Len(published) + 1
                /\ Len(radio_tx) = Len(published')
         ]_vars
    /\ [](Len(radio_tx) <= nframes /\ Len(published) <= Len(radio_tx))

\* one valid frame was received, acknowledged and published, and the loop
\* polls again with nothing pending
C21_Witness ==
    /\ nframes = 1
    /\ rx_pc = "poll"
    /\ irq_flags = {}
    /\ radio_tx = << <<"ACK", "N2">> >>
    /\ Len(published) = 1

\* the loop is between the metric capture and the end of the publish
AfterCapture ==
    rx_pc \in {"ack_standby", "ack_tx", "ack_wait", "ack_restore", "publish"}

\* C25: RSSI, SNR and received_at are read once, right after the frame was
\* validated: with the radio still in rx_continuous and before the ACK is
\* started; the values read stay as they are through the ACK, and the
\* envelope carries exactly them, not the registers or the clock at publish
\* time.
C25_MetricsCapturedBeforeAck ==
    [][ /\ (rx_pc = "capture" /\ rx_pc' # rx_pc) =>
              /\ rx_loc'.r = RssiDbm(rssi_reg)
              /\ rx_loc'.s = SnrDb(snr_reg)
              /\ rx_loc'.ts = clock
              /\ op_mode = "rx_continuous"
              /\ Len(radio_tx) = Len(published)
              /\ radio_tx' = radio_tx
        /\ (AfterCapture /\ rx_pc' \notin {"poll", "exited"}) =>
              /\ rx_loc'.r = rx_loc.r
              /\ rx_loc'.s = rx_loc.s
              /\ rx_loc'.ts = rx_loc.ts
        /\ published' # published =>
              /\ published'[Len(published')].rssi = rx_loc.r
              /\ published'[Len(published')].snr = rx_loc.s
              /\ published'[Len(published')].received_at = rx_loc.ts
              /\ rx_loc.ts < clock
      ]_vars

\* an envelope was published whose received_at is earlier than the clock and
\* whose RSSI is not what the register holds now (a later frame came in)
C25_Witness ==
    /\ Len(published) >= 1
    /\ published[1].rssi = -68
    /\ published[1].snr = 28
    /\ published[1].received_at < clock
    /\ RssiDbm(rssi_reg) # published[1].rssi

\* C26: send_ack always terminates.  Once it is entered it returns (the loop
\* reaches the publish), whether or not the modem ever raises transmit-done;
\* when it returns the wait has ended by the flag or by the deadline, the IRQ
\* flags are cleared and the mode is rx_continuous; and the envelope of the
\* frame is then published.
C26_SendAckTerminates ==
    /\ (rx_pc = "ack_standby") ~> (rx_pc = "publish")
    /\ \A n \in 0..MaxFrames :
          (rx_pc = "ack_standby" /\ Len(published) = n) ~> (Len(published) = n + 1)
    /\ [][ (rx_pc = "ack_restore" /\ rx_pc' # rx_pc) =>
              /\ rx_loc.ack \in {"tx_done", "timeout"}
              /\ irq_flags' = {}
              /\ op_mode' = "rx_continuous"
              /\ rx_pc' = "publish"
         ]_vars

\* send_ack has returned after its deadline expired without transmit-done:
\* flags cleared, rx_continuous restored, the publish is next
C26_Witness ==
    /\ rx_pc = "publish"
    /\ rx_loc.ack = "timeout"
    /\ irq_flags = {}
    /\ op_mode = "rx_continuous"
    /\ Len(radio_tx) = Len(published) + 1

\* the mode changes of the start-up and of an acknowledgment
StartUpModeSteps == {<<"sleep", "standby">>, <<"standby", "rx_continuous">>}
AckModeSteps ==
    {<<"rx_continuous", "standby">>, <<"standby", "tx">>, <<"tx", "rx_continuous">>}

\* C27: the mode changes only along sleep -> standby -> rx_continuous during
\* start-up and rx_continuous -> standby -> tx -> rx_continuous inside an
\* ACK; it is rx_continuous whenever the loop polls (and until the ACK
\* begins); tx is entered only by the ACK's transmit step, once per ACK.
C27_ModeTransitions ==
    /\ [][ /\ op_mode' # op_mode =>
                IF rx_pc \in {"off", "init"}
                THEN <<op_mode, op_mode'>> \in StartUpModeSteps
                ELSE /\ <<op_mode, op_mode'>> \in AckModeSteps
                     /\ rx_pc \in {"ack_standby", "ack_tx", "ack_restore"}
           /\ (op_mode' = "tx" /\ op_mode # "tx") =>
                /\ rx_pc = "ack_tx"
                /\ radio_tx' # radio_tx
           /\ radio_tx' # radio_tx =>
                /\ op_mode = "standby"
                /\ op_mode' = "tx"
                /\ Len(radio_tx') = Len(radio_tx) + 1
         ]_vars
    /\ [](rx_pc \in {"poll", "clear", "read_fifo", "capture", "ack_standby", "publish"}
             => op_mode = "rx_continuous")
    /\ [](rx_pc = "off" => op_mode = "sleep")
    /\ [](rx_pc = "init" => op_mode = "standby")

\* after start-up and two acknowledgments the loop polls in rx_continuous
C27_Witness ==
    /\ rx_pc = "poll"
    /\ Len(radio_tx) = 2
    /\ op_mode = "rx_continuous"

=============================================================================
